---- MODULE Spec2Model ----
(***************************************************************************)
(* Model of the pagination state cache of telegram-anime-bot:              *)
(*   src/storage.py   data_cache over the sqlite store                     *)
(*   src/keyboards.py PaginationKeyboardHandler (handle_first, handle_next,*)
(*                    generate_markup) and KeyboardHandler.on_update       *)
(*   src/bot.py       the Application that feeds updates to the handlers   *)
(* Strings are sequences of one-character strings, so that the SQL text    *)
(* set_user_data builds and the JSON text handle_first builds are parsed   *)
(* the way sqlite and json.loads parse them.                               *)
(***************************************************************************)
EXTENDS Integers, Sequences, FiniteSets, TLC

(***************************************************************************)
(* Bounds of the model.                                                    *)
(***************************************************************************)
\* updates (commands and clicks) that arrive in one run
MaxUpdates == 3
\* updates received and not yet handled to the end (update_queue and the handler)
MaxQueue == 2
\* largest message id a chat hands out
MaxMsgId == 4
\* largest last page the content API reports for a search
MaxLast == 3
\* collaborator failures (store, content API, transport) injected in one run
MaxFaults == 1
\* messages the users delete by hand in one run
MaxUserDeletes == 1
\* process restarts in one run
MaxRestarts == 1
\* words of a command's argument list, and characters of a word
MaxArgs == 1
MaxWordLen == 1

(***************************************************************************)
(* The fixed sets of the program.                                          *)
(***************************************************************************)
Users == {"u1", "u2"}
Chats == {"c1", "c2"}
\* update.effective_user of an update that has none (None)
NoUser == "None"
\* the chat the users of most specifications write in
MainChats == {"c1"}
\* settings.DatabaseTables: the keyboard tables the pagination handlers use
Tables == {"keyboard_anime", "keyboard_manga"}
\* the columns of a keyboard table after user_id
Fields == {"message_id", "reply_id", "step", "current_page", "last_page", "kwargs"}
\* the characters of the arguments a user types
Alphabet == {"a", "7", "'"}
Digits == <<"0", "1", "2", "3", "4", "5", "6", "7", "8", "9">>

(***************************************************************************)
(* Python / SQL values: None (SQL NULL), an int, or a str.  One record     *)
(* shape for all three, so that values of different types compare.         *)
(***************************************************************************)
None == [t |-> "none", i |-> 0, s |-> <<>>]
PyIntV(n) == [t |-> "int", i |-> n, s |-> <<>>]
PyStrV(chars) == [t |-> "str", i |-> 0, s |-> chars]

\* Python truthiness: `if previous_keyboard:`, `if not pagination["current_page"]`
Truthy(v) ==
    CASE v.t = "none" -> FALSE
      [] v.t = "int" -> v.i # 0
      [] OTHER -> v.s # <<>>

IsDigit(c) == \E k \in 1..10 : Digits[k] = c
DigitVal(c) == (CHOOSE k \in 1..10 : Digits[k] = c) - 1
AllDigits(chars) == Len(chars) > 0 /\ \A k \in 1..Len(chars) : IsDigit(chars[k])

RECURSIVE NatStr(_)
NatStr(n) == IF n < 10 THEN <<Digits[n + 1]>> ELSE NatStr(n \div 10) \o <<Digits[(n % 10) + 1]>>

RECURSIVE StrNat(_)
StrNat(chars) ==
    IF chars = <<>> THEN 0
    ELSE 10 * StrNat(SubSeq(chars, 1, Len(chars) - 1)) + DigitVal(chars[Len(chars)])

\* str(value), as the f-string of set_user_data and of generate_markup formats it
PyStr(v) ==
    CASE v.t = "none" -> <<"N", "o", "n", "e">>
      [] v.t = "int" -> IF v.i < 0 THEN <<"-">> \o NatStr(-v.i) ELSE NatStr(v.i)
      [] OTHER -> v.s

\* int(text) of handle_next: an optional sign and decimal digits
IntOk(chars) ==
    \/ AllDigits(chars)
    \/ Len(chars) > 1 /\ chars[1] \in {"-", "+"} /\ AllDigits(Tail(chars))
PyInt(chars) ==
    IF chars[1] = "-" THEN -StrNat(Tail(chars))
    ELSE IF chars[1] = "+" THEN StrNat(Tail(chars))
    ELSE StrNat(chars)

\* str.strip() of the text int() is given: int() ignores blanks around it
RECURSIVE strip(_)
strip(chars) ==
    IF chars = <<>> THEN chars
    ELSE IF chars[1] = " " THEN strip(Tail(chars))
    ELSE IF chars[Len(chars)] = " " THEN strip(SubSeq(chars, 1, Len(chars) - 1))
    ELSE chars

\* data[1] of query.data.split(":"), for the data "<category>:<tail>": the
\* tail up to its first colon
RECURSIVE split1(_)
split1(tail) ==
    IF tail = <<>> \/ tail[1] = ":" THEN <<>> ELSE <<tail[1]>> \o split1(Tail(tail))

\* re.match("<category>:(-)?[0-9]+", data), as CallbackQueryHandler checks an
\* update: the pattern has to match at the start of the data, not all of it
PatternMatches(tail) ==
    LET rest == IF tail # <<>> /\ tail[1] = "-" THEN Tail(tail) ELSE tail
    IN  rest # <<>> /\ IsDigit(rest[1])

\* step = int(data[1]) of handle_next (keyboards.py 155-156)
CallbackStepOk(tail) == IntOk(strip(split1(tail)))
CallbackStep(tail) == PyInt(strip(split1(tail)))

\* a clamp that forgets the lower end
clampMostOnly(value, least, most) == IF value < most THEN value ELSE most

\* a clamp that forgets the upper end
clampLeastOnly(value, least, most) == IF least > value THEN least ELSE value

\* utils.clamp
clamp(value, least, most) ==
    LET m == IF value < most THEN value ELSE most
    IN  IF least > m THEN least ELSE m

(***************************************************************************)
(* sqlite's reading of the text `key=<text>` that set_user_data            *)
(* interpolates into its UPDATE.                                           *)
(***************************************************************************)
SqlError == [ok |-> FALSE, v |-> None]
SqlOk(v) == [ok |-> TRUE, v |-> v]

\* A string literal '...' with '' for a quote inside it.  The scan starts
\* after the opening quote; text after the closing quote is a syntax error
\* (no text of the bounded alphabet continues the statement validly).
RECURSIVE SqlStringLiteral(_, _, _)
SqlStringLiteral(chars, k, acc) ==
    IF k > Len(chars) THEN SqlError
    ELSE IF chars[k] # "'" THEN SqlStringLiteral(chars, k + 1, Append(acc, chars[k]))
    ELSE IF k < Len(chars) /\ chars[k + 1] = "'"
         THEN SqlStringLiteral(chars, k + 2, Append(acc, "'"))
    ELSE IF k = Len(chars) THEN SqlOk(PyStrV(acc))
    ELSE SqlError

SqlEval(chars) ==
    IF chars = <<"N", "U", "L", "L">> THEN SqlOk(None)
    ELSE IF AllDigits(chars) THEN SqlOk(PyIntV(StrNat(chars)))
    ELSE IF Len(chars) > 0 /\ chars[1] = "'" THEN SqlStringLiteral(chars, 2, <<>>)
    ELSE SqlError

(***************************************************************************)
(* json.dumps({"identifier": identifier}) and json.loads of it.            *)
(***************************************************************************)
JsonPrefix == <<"{", "\"", "i", "d", "e", "n", "t", "i", "f", "i", "e", "r", "\"", ":", " ", "\"">>
JsonSuffix == <<"\"", "}">>

RECURSIVE JsonEscape(_)
JsonEscape(chars) ==
    IF chars = <<>> THEN <<>>
    ELSE (IF chars[1] \in {"\"", "\\"} THEN <<"\\", chars[1]>> ELSE <<chars[1]>>)
         \o JsonEscape(Tail(chars))

dumps(identifier) == JsonPrefix \o JsonEscape(identifier) \o JsonSuffix

\* the body of a JSON string: [ok, v]; a bare quote or a lone backslash is an error
RECURSIVE JsonUnescape(_, _)
JsonUnescape(chars, acc) ==
    IF chars = <<>> THEN [ok |-> TRUE, v |-> acc]
    ELSE IF chars[1] = "\"" THEN [ok |-> FALSE, v |-> <<>>]
    ELSE IF chars[1] = "\\"
         THEN IF Len(chars) > 1 /\ chars[2] \in {"\"", "\\"}
              THEN JsonUnescape(SubSeq(chars, 3, Len(chars)), Append(acc, chars[2]))
              ELSE [ok |-> FALSE, v |-> <<>>]
    ELSE JsonUnescape(Tail(chars), Append(acc, chars[1]))

\* loads(text)["identifier"]: [ok, v]
loads(chars) ==
    LET n == Len(chars)
        p == Len(JsonPrefix)
    IN  IF n >= p + 2 /\ SubSeq(chars, 1, p) = JsonPrefix /\ SubSeq(chars, n - 1, n) = JsonSuffix
        THEN JsonUnescape(SubSeq(chars, p + 1, n - 2), <<>>)
        ELSE [ok |-> FALSE, v |-> <<>>]

\* str.strip("'")
RECURSIVE StripQuotes(_)
StripQuotes(chars) ==
    IF chars # <<>> /\ chars[1] = "'" THEN StripQuotes(Tail(chars))
    ELSE IF chars # <<>> /\ chars[Len(chars)] = "'" THEN StripQuotes(SubSeq(chars, 1, Len(chars) - 1))
    ELSE chars

\* " ".join(context.args).strip(): the words hold no white space
RECURSIVE JoinArgs(_)
JoinArgs(args) ==
    IF args = <<>> THEN <<>>
    ELSE IF Len(args) = 1 THEN args[1]
    ELSE args[1] \o <<" ">> \o JoinArgs(Tail(args))

\* str.isnumeric()
isnumeric(chars) == AllDigits(chars)

(***************************************************************************)
(* The store (sqlite, src/storage.py) and data_cache.                      *)
(***************************************************************************)
\* a row as INSERT OR IGNORE INTO t (user_id) creates it: step DEFAULT 1
DefaultRow ==
    [message_id |-> None, reply_id |-> None, step |-> PyIntV(1),
     current_page |-> None, last_page |-> None, kwargs |-> None]

\* the storage state an operation works on: the tables and data_cache
Storage(st, dc) == [store |-> st, data_cache |-> dc]

\* a setup_data_cache that creates the rows it misses but reads none
setup_data_cache_unread(S, user_id) ==
    LET st == [S.store EXCEPT ![user_id] =
                  [tb \in Tables |->
                      IF @[tb].present THEN @[tb]
                      ELSE [present |-> TRUE, row |-> DefaultRow]]]
    IN  Storage(st, [S.data_cache EXCEPT ![user_id] =
                        [loaded |-> TRUE, tables |-> [tb \in Tables |-> DefaultRow]]])

\* a setup_data_cache whose INSERT replaces the row it finds
setup_data_cache_replace(S, user_id) ==
    LET st == [S.store EXCEPT ![user_id] =
                  [tb \in Tables |-> [present |-> TRUE, row |-> DefaultRow]]]
    IN  Storage(st, [S.data_cache EXCEPT ![user_id] =
                        [loaded |-> TRUE, tables |-> [tb \in Tables |-> st[user_id][tb].row]]])

\* setup_data_cache: for each table INSERT OR IGNORE the user's row, SELECT
\* it, and put the rows read into data_cache[user_id]
setup_data_cache(S, user_id) ==
    LET st == [S.store EXCEPT ![user_id] =
                  [tb \in Tables |->
                      IF @[tb].present THEN @[tb]
                      ELSE [present |-> TRUE, row |-> DefaultRow]]]
    IN  Storage(st, [S.data_cache EXCEPT ![user_id] =
                        [loaded |-> TRUE, tables |-> [tb \in Tables |-> st[user_id][tb].row]]])

\* get_user_data: [ok, S]; the table returned is S.data_cache[user_id].tables[tb].
\* `avail` is whether sqlite answers; it is asked only on a cache miss.
get_user_data(S, user_id, avail) ==
    IF S.data_cache[user_id].loaded THEN [ok |-> TRUE, S |-> S]
    ELSE IF avail THEN [ok |-> TRUE, S |-> setup_data_cache(S, user_id)]
    ELSE [ok |-> FALSE, S |-> S]

\* the row after UPDATE t SET k1=<str(v1)>, k2=<str(v2)>, ...: each text is
\* read by sqlite (stored); data_cache keeps the Python value given (raw)
RECURSIVE ApplyStored(_, _)
ApplyStored(row, changes) ==
    IF changes = <<>> THEN row
    ELSE ApplyStored([row EXCEPT ![changes[1][1]] = SqlEval(PyStr(changes[1][2])).v],
                     Tail(changes))

RECURSIVE ApplyRaw(_, _)
ApplyRaw(row, changes) ==
    IF changes = <<>> THEN row
    ELSE ApplyRaw([row EXCEPT ![changes[1][1]] = changes[1][2]], Tail(changes))

SqlStatementOk(changes) ==
    \A k \in 1..Len(changes) : SqlEval(PyStr(changes[k][2])).ok

\* the store after cursor.execute(UPDATE ...) and connection.commit()
\* an UPDATE without its WHERE clause: every row of the table is written
StoreWriteEveryRow(S, user_id, tablename, changes) ==
    [u \in Users |->
        [S.store[u] EXCEPT ![tablename].row =
            IF S.store[u][tablename].present THEN ApplyStored(@, changes) ELSE @]]

StoreWrite(S, user_id, tablename, changes) ==
    [S.store EXCEPT ![user_id][tablename].row =
        IF S.store[user_id][tablename].present THEN ApplyStored(@, changes) ELSE @]

\* the assignments user_data[tablename][key] = changes[key]
CacheWrite(S, user_id, tablename, changes) ==
    [S.data_cache EXCEPT ![user_id].tables[tablename] = ApplyRaw(@, changes)]

\* a set_user_data that assigns the cache before it writes the store
set_user_data_cache_first(S, user_id, tablename, changes, avail) ==
    LET got == get_user_data(S, user_id, avail)
        S1 == Storage(got.S.store, CacheWrite(got.S, user_id, tablename, changes))
    IN  IF ~got.ok THEN [ok |-> FALSE, S |-> S]
        ELSE IF ~avail \/ ~SqlStatementOk(changes) THEN [ok |-> FALSE, S |-> S1]
        ELSE [ok |-> TRUE,
              S |-> Storage(StoreWrite(S1, user_id, tablename, changes), S1.data_cache)]

\* set_user_data: [ok, S].  The statement is executed and committed first;
\* the cache is assigned only after both returned.
set_user_data(S, user_id, tablename, changes, avail) ==
    LET got == get_user_data(S, user_id, avail)
        S1 == got.S
    IN  IF ~got.ok THEN [ok |-> FALSE, S |-> S]
        ELSE IF ~avail \/ ~SqlStatementOk(changes) THEN [ok |-> FALSE, S |-> S1]
        ELSE LET S2 == Storage(StoreWrite(S1, user_id, tablename, changes), S1.data_cache)
             IN  [ok |-> TRUE,
                  S |-> Storage(S2.store, CacheWrite(S2, user_id, tablename, changes))]

(***************************************************************************)
(* The chat transport: the messages of each chat, in the order of their    *)
(* ids.  A message is a user's command, a page the bot rendered, or the    *)
(* bot's "Please run the command again" notice.                            *)
(***************************************************************************)
Message(kind, user, table, page, anchor, kb) ==
    [kind |-> kind, user |-> user, table |-> table, page |-> page, anchor |-> anchor,
     previous |-> kb.previous, next |-> kb.next, step |-> kb.step, alive |-> TRUE]

NoKeyboard == [previous |-> FALSE, next |-> FALSE, step |-> None]

\* whether `id` (a value) names a message of the chat that still exists
Exists(ms, chat, id) ==
    id.t = "int" /\ id.i \in 1..Len(ms[chat]) /\ ms[chat][id.i].alive

\* the InlineKeyboardMarkup generate_markup builds (keyboards.py 123-133)
Keyboard(current_page, last_page, step) ==
    [previous |-> last_page # 1,
     next |-> last_page # 1 /\ current_page # last_page,
     step |-> step]

\* a Previous button that carries the step without its sign
callback_data_previous_unsigned(step) == PyStr(step)

\* the text after "<category>:" in the callback data of the buttons
\* (keyboards.py 123-125): f"{pattern}:-{step}" and f"{pattern}:{step}"
callback_data_previous(step) == <<"-">> \o PyStr(step)
callback_data_next(step) == PyStr(step)

(***************************************************************************)
(* Tasks: one per update, in the order of arrival in update_queue.         *)
(***************************************************************************)
\* an entry of a handler's log: a call made (r = "call") with what it names,
\* or a call returned with its outcome r
Event(op, v, n, r) == [op |-> op, v |-> v, n |-> n, r |-> r]

Words == UNION {[1..n -> Alphabet] : n \in 1..MaxWordLen}
ArgLists == UNION {[1..n -> Words] : n \in 0..MaxArgs}
\* the text after "<category>:" in the callback data of a click
ClickTails == {<<"1">>, <<"-", "1">>, <<"2">>}

NoStorage == Storage(<<>>, <<>>)

NewTask(kind, user, chat, table, msg, args, tail, inflight) ==
    [kind |-> kind, user |-> user, chat |-> chat, table |-> table, msg |-> msg,
     args |-> args, tail |-> tail,
     pc |-> "queued", identifier |-> <<>>, current |-> 0, last |-> 0, next_page |-> 0,
     previous_keyboard |-> None, keyboard |-> NoKeyboard, anchor |-> None,
     outcome |-> "",
     \* history of the operation, for the properties
     log |-> <<>>, pre |-> NoStorage, at_set |-> NoStorage, inflight |-> inflight,
     read_page |-> 0, sent |-> 0]

VARIABLES
    store,         \* [user][table] -> [present, row]: the sqlite tables
    data_cache,    \* [user] -> [loaded, tables]: storage.data_cache
    messages,      \* [chat] -> sequence of messages, message id = index
    tasks,         \* the updates received, in order, each with its handler's state
    faults,        \* collaborator failures so far
    user_deletes,  \* messages deleted by users so far
    restarts       \* restarts so far

vars == <<store, data_cache, messages, tasks, faults, user_deletes, restarts>>

Running(i) == tasks[i].pc \notin {"queued", "done", "retired"}
Finished(i) == tasks[i].pc \in {"done", "retired"}
TaskIds == 1..Len(tasks)

Init ==
    /\ store = [u \in Users |-> [tb \in Tables |-> [present |-> FALSE, row |-> DefaultRow]]]
    /\ data_cache = [u \in Users |-> [loaded |-> FALSE, tables |-> [tb \in Tables |-> DefaultRow]]]
    /\ messages = [c \in Chats |-> <<>>]
    /\ tasks = <<>>
    /\ faults = 0
    /\ user_deletes = 0
    /\ restarts = 0

(***************************************************************************)
(* The users.                                                              *)
(***************************************************************************)
\* the messages the unfinished handlers of a chat may still send
Pending(chat) == Cardinality({i \in TaskIds : ~Finished(i) /\ tasks[i].chat = chat})
Unfinished == {i \in TaskIds : ~Finished(i)}

\* /anime <args>, /manga <args>: the command message enters the chat and the
\* update enters update_queue (main.py webhook)
UserSendsCommandUpTo(max, user, chat, table, args) ==
    /\ Len(tasks) < MaxUpdates
    /\ Cardinality(Unfinished) < MaxQueue
    /\ Len(messages[chat]) + Pending(chat) + 2 <= max
    /\ messages' = [messages EXCEPT ![chat] =
                       Append(@, Message("command", user, table, 0, None, NoKeyboard))]
    /\ tasks' = Append(tasks, NewTask("command", user, chat, table, Len(messages[chat]) + 1,
                                      args, <<>>, Unfinished))
    /\ UNCHANGED <<store, data_cache, faults, user_deletes, restarts>>

UserSendsCommand(user, chat, table, args) ==
    UserSendsCommandUpTo(MaxMsgId, user, chat, table, args)

\* a user presses a button of a page the bot rendered: the callback data is
\* "<category>:<tail>" of that page's category
UserClicksUpTo(max, user, chat, m, tail) ==
    /\ Len(tasks) < MaxUpdates
    /\ Cardinality(Unfinished) < MaxQueue
    /\ Len(messages[chat]) + Pending(chat) + 1 <= max
    /\ m \in 1..Len(messages[chat])
    /\ LET msg == messages[chat][m]
       IN  /\ msg.alive /\ msg.kind = "page" /\ (msg.previous \/ msg.next)
           /\ tasks' = Append(tasks, NewTask("click", user, chat, msg.table, m,
                                             <<>>, tail, Unfinished))
    /\ UNCHANGED <<store, data_cache, messages, faults, user_deletes, restarts>>

UserClicks(user, chat, m, tail) == UserClicksUpTo(MaxMsgId, user, chat, m, tail)

(***************************************************************************)
(* The Application (bot.py 59, main.py 34-49).                             *)
(***************************************************************************)
\* The history of a finished task, for the properties: the task that finished
\* last keeps its update and what it read and wrote until the next one has
\* finished too; an older one keeps nothing.
Forgotten ==
    [NewTask("", "", "", "", 0, <<>>, <<>>, {}) EXCEPT !.pc = "retired"]

Retired(t) ==
    [NewTask(t.kind, t.user, t.chat, t.table, 0, <<>>, t.tail, t.inflight)
        EXCEPT !.pc = "retired", !.outcome = t.outcome, !.read_page = t.read_page,
               !.next_page = t.next_page]

Retire(ts) ==
    [j \in 1..Len(ts) |->
        IF ts[j].pc = "done" THEN Retired(ts[j])
        ELSE IF ts[j].pc = "retired" THEN Forgotten
        ELSE ts[j]]

Done(t, outcome) == [t EXCEPT !.pc = "done", !.outcome = outcome]
Log(t, e) == [t EXCEPT !.log = Append(@, e)]

\* Application.builder()...build() sets no concurrent_updates: the update
\* fetcher awaits the handler of an update before it takes the next one
\* (an Application built with concurrent_updates would not wait)
UpdateFetcherConcurrent == TRUE
UpdateFetcherReady == \A j \in TaskIds : ~Running(j)

\* handle_first up to its first await (keyboards.py 138-142)
\* a handle_first that fetches whatever the identifier is
HandleFirstBeginAlways(t) ==
    LET identifier == JoinArgs(t.args)
    IN  Log([t EXCEPT !.pc = "first_get_data", !.identifier = identifier],
            Event("get_data", PyStrV(identifier), 1, "call"))

HandleFirstBegin(t) ==
    LET identifier == JoinArgs(t.args)
    IN  IF Len(identifier) = 0 THEN Done(t, "abort")
        ELSE Log([t EXCEPT !.pc = "first_get_data", !.identifier = identifier],
                 Event("get_data", PyStrV(identifier), 1, "call"))

\* on_update up to its first await (keyboards.py 88-90): cls.answer(...) is
\* not awaited, the coroutine object is true
OnUpdateBegin(t) == Log([t EXCEPT !.pc = "answer"], Event("answer", None, 0, "call"))

\* the update fetcher takes the next update of update_queue and calls its handler
ProcessUpdate(i) ==
    /\ i \in TaskIds
    /\ tasks[i].pc = "queued"
    /\ \A j \in 1..(i - 1) : tasks[j].pc # "queued"
    /\ UpdateFetcherReady
    /\ LET t == [tasks[i] EXCEPT !.pre = Storage(store, data_cache)]
       IN  tasks' = [Retire(tasks) EXCEPT ![i] =
                        IF t.kind = "command" THEN HandleFirstBegin(t)
                        ELSE IF PatternMatches(t.tail) THEN OnUpdateBegin(t)
                        ELSE Done(t, "unhandled")]
    /\ UNCHANGED <<store, data_cache, messages, faults, user_deletes, restarts>>

\* application.stop() handles what is queued, then the process starts again
\* with an empty data_cache; the sqlite file stays
Restart ==
    /\ restarts < MaxRestarts
    /\ \A j \in TaskIds : Finished(j)
    /\ \E u \in Users : data_cache[u].loaded
    /\ data_cache' = [u \in Users |-> [loaded |-> FALSE, tables |-> [tb \in Tables |-> DefaultRow]]]
    /\ tasks' = Retire(tasks)
    /\ restarts' = restarts + 1
    /\ UNCHANGED <<store, messages, faults, user_deletes>>

(***************************************************************************)
(* The collaborators' answers.  "gone": the message the call names does    *)
(* not exist (BadRequest); if it existed until now, a user has just        *)
(* deleted it by hand.  "bad_request": another BadRequest (the text cannot *)
(* be parsed, the message is too old to delete).  "error": the transport   *)
(* is unavailable.  The last two, like an unavailable store or content     *)
(* API, are injected failures and counted.                                 *)
(***************************************************************************)
CallOutcomes == {"ok", "gone", "bad_request", "error"}

\* a call that names message `ref` of the chat (None: names no message)
CallAllowed(chat, ref, outcome) ==
    CASE outcome = "ok" -> ref = None \/ Exists(messages, chat, ref)
      [] outcome = "gone" -> ref # None
      [] OTHER -> TRUE
FaultCost(outcome) == IF outcome \in {"bad_request", "error"} THEN 1 ELSE 0
UserDeleteCost(chat, ref, outcome) ==
    IF outcome = "gone" /\ Exists(messages, chat, ref) THEN 1 ELSE 0

\* the chat after a call that named `ref` came back with "gone"; for
\* delete_message, also after it came back with "ok"
Without(ms, chat, ref) ==
    IF Exists(ms, chat, ref) THEN [ms EXCEPT ![chat][ref.i].alive = FALSE] ELSE ms
After(chat, ref, outcome) ==
    IF outcome = "gone" THEN Without(messages, chat, ref) ELSE messages

\* handlers that catch nothing
IsBadRequestNever(outcome) == FALSE

\* BadRequest is what the handlers catch
IsBadRequest(outcome) == outcome \in {"gone", "bad_request"}

Result(t, S, ms) == [task |-> t, S |-> S, messages |-> ms]

Install(i, r, cost, deleted) ==
    /\ faults + cost <= MaxFaults
    /\ user_deletes + deleted <= MaxUserDeletes
    /\ tasks' = [tasks EXCEPT ![i] = r.task]
    /\ store' = r.S.store
    /\ data_cache' = r.S.data_cache
    /\ messages' = r.messages
    /\ faults' = faults + cost
    /\ user_deletes' = user_deletes + deleted
    /\ UNCHANGED restarts

(***************************************************************************)
(* PaginationKeyboardHandler (keyboards.py 98-194), one action per await.  *)
(***************************************************************************)
OnePageOfTwo == [last |-> 2, current |-> 1, per_page |-> 1]

OnePage == [last |-> 1, current |-> 1, per_page |-> 1]

Row(S, t) == S.data_cache[t.user].tables[t.table]

\* the caller of generate_markup goes on to its reply_html: handle_first
\* replies to the command (148), handle_next to the stored reply_id (178)
IssueReply(t, S) ==
    LET anchor == IF t.kind = "command" THEN PyIntV(t.msg) ELSE Row(S, t).reply_id
    IN  Log([t EXCEPT !.pc = IF t.kind = "command" THEN "first_reply" ELSE "next_reply",
                      !.anchor = anchor],
            Event("reply", anchor, 0, "call"))

\* a clearing that resets the page of the session with the message
ClearChangesWithPage ==
    << <<"message_id", PyStrV(<<"N", "U", "L", "L">>)>>,
       <<"current_page", PyStrV(<<"N", "U", "L", "L">>)>> >>

\* what generate_markup writes in its finally (121): message_id = "NULL"
ClearChanges == << <<"message_id", PyStrV(<<"N", "U", "L", "L">>)>> >>

\* a generate_markup that clears message_id before it asks for the deletion
GenerateMarkupClearsFirst(t, S, current_page, last_page, avail) ==
    LET got == get_user_data(S, t.user, avail)
        row == Row(got.S, t)
        t1 == [t EXCEPT !.previous_keyboard = row.message_id,
                        !.keyboard = Keyboard(clamp(current_page, 1, last_page), last_page, row.step)]
        r == set_user_data(got.S, t.user, t.table, ClearChanges, avail)
    IN  IF ~got.ok
        THEN Result(Done(Log(t, Event("get_user_data", None, 0, "failed")), "error"), S, messages)
        ELSE IF Truthy(row.message_id) /\ ~r.ok
             THEN Result(Done(Log([t EXCEPT !.at_set = got.S], Event("clear", None, 0, "failed")),
                              "error"), r.S, messages)
        ELSE IF Truthy(row.message_id)
             THEN Result(Log(Log([t1 EXCEPT !.pc = "delete_message"], Event("clear", None, 0, "ok")),
                             Event("delete_message", row.message_id, 0, "call")),
                         r.S, messages)
        ELSE Result(IssueReply(t1, got.S), got.S, messages)

\* generate_markup up to its delete_message (keyboards.py 107-116), or to its
\* end when there is no previous keyboard
GenerateMarkupBegin(t, S, current_page, last_page, avail) ==
    LET got == get_user_data(S, t.user, avail)
        row == Row(got.S, t)
        t1 == [t EXCEPT !.previous_keyboard = row.message_id,
                        !.keyboard = Keyboard(clamp(current_page, 1, last_page), last_page, row.step)]
    IN  IF ~got.ok
        THEN Result(Done(Log(t, Event("get_user_data", None, 0, "failed")), "error"), S, messages)
        ELSE IF Truthy(row.message_id)
             THEN Result(Log([t1 EXCEPT !.pc = "delete_message"],
                             Event("delete_message", row.message_id, 0, "call")),
                         got.S, messages)
        ELSE Result(IssueReply(t1, got.S), got.S, messages)

\* the final set_user_data of handle_first (149) and handle_next (184)
Commit(t, S, ms, changes, avail) ==
    LET r == set_user_data(S, t.user, t.table, changes, avail)
    IN  IF r.ok THEN Result(Done(Log(t, Event("commit", None, 0, "ok")), "committed"), r.S, ms)
        ELSE Result(Done(Log([t EXCEPT !.at_set = S], Event("commit", None, 0, "failed")), "error"), r.S, ms)

\* what handle_first commits (144, 149)
FirstChanges(t, message_id) ==
    << <<"message_id", PyIntV(message_id)>>,
       <<"reply_id", PyIntV(t.msg)>>,
       <<"current_page", PyIntV(t.current)>>,
       <<"last_page", PyIntV(t.last)>>,
       <<"kwargs", PyStrV(<<"'">> \o dumps(t.identifier) \o <<"'">>)>> >>

\* a commit of handle_next that leaves current_page behind
NextChangesMessageOnly(t, message_id) == << <<"message_id", PyIntV(message_id)>> >>

\* a commit of handle_next that rewrites the step of the session too
NextChangesWithStep(t, message_id) ==
    << <<"message_id", PyIntV(message_id)>>, <<"current_page", PyIntV(t.next_page)>>,
       <<"step", PyIntV(t.next_page)>> >>

\* what handle_next commits (184)
NextChanges(t, message_id) ==
    << <<"message_id", PyIntV(message_id)>>, <<"current_page", PyIntV(t.next_page)>> >>

\* get_data(identifier, 1) returns to handle_first (142-147)
FirstGetData(i) ==
    /\ i \in TaskIds
    /\ tasks[i].pc = "first_get_data"
    /\ \E ok \in BOOLEAN, last \in 1..MaxLast, avail \in BOOLEAN :
          LET t == tasks[i]
              S == Storage(store, data_cache)
              pagination == IF isnumeric(t.identifier) THEN OnePage
                            ELSE [last |-> last, current |-> 1, per_page |-> 1]
              t1 == Log([t EXCEPT !.current = pagination.current, !.last = pagination.last],
                        Event("get_data", PyStrV(t.identifier), 1, IF ok THEN "ok" ELSE "error"))
          IN  /\ isnumeric(t.identifier) => last = 1
              /\ ~ok => (avail /\ last = 1)
              /\ ~avail => ~data_cache[t.user].loaded
              /\ Install(i,
                         IF ok THEN GenerateMarkupBegin(t1, S, pagination.current, pagination.last, avail)
                         ELSE Result(Done(t1, "error"), S, messages),
                         (IF ok THEN 0 ELSE 1) + (IF avail THEN 0 ELSE 1), 0)

\* delete_message returns to generate_markup; finally: set_user_data(message_id
\* = "NULL"); then the markup is built and the caller replies (116-133)
DeleteMessage(i) ==
    /\ i \in TaskIds
    /\ tasks[i].pc = "delete_message"
    /\ \E outcome \in CallOutcomes, avail \in BOOLEAN :
          LET t == tasks[i]
              S == Storage(store, data_cache)
              target == t.previous_keyboard
              ms == IF outcome \in {"ok", "gone"} THEN Without(messages, t.chat, target)
                    ELSE messages
              r == set_user_data(S, t.user, t.table, ClearChanges, avail)
              t0 == Log(t, Event("delete_message", target, 0, outcome))
              t1 == Log(IF r.ok THEN t0 ELSE [t0 EXCEPT !.at_set = S],
                        Event("clear", None, 0, IF r.ok THEN "ok" ELSE "failed"))
          IN  /\ CallAllowed(t.chat, target, outcome)
              /\ Install(i,
                         IF ~r.ok \/ ~(outcome = "ok" \/ IsBadRequest(outcome))
                         THEN Result(Done(t1, "error"), r.S, ms)
                         ELSE Result(IssueReply(t1, r.S), r.S, ms),
                         FaultCost(outcome) + (IF avail THEN 0 ELSE 1),
                         UserDeleteCost(t.chat, target, outcome))

\* reply_html returns to handle_first, which commits (148-149)
FirstReply(i) ==
    /\ i \in TaskIds
    /\ tasks[i].pc = "first_reply"
    /\ \E outcome \in CallOutcomes, avail \in BOOLEAN :
          LET t == tasks[i]
              S == Storage(store, data_cache)
              id == Len(messages[t.chat]) + 1
              ms == [messages EXCEPT ![t.chat] =
                        Append(@, Message("page", t.user, t.table, 1, t.anchor, t.keyboard))]
              t1 == Log([t EXCEPT !.sent = id], Event("reply", t.anchor, id, "ok"))
              t2 == Log(t, Event("reply", t.anchor, 0, outcome))
          IN  /\ CallAllowed(t.chat, t.anchor, outcome)
              /\ outcome # "ok" => avail
              /\ Install(i,
                         IF outcome = "ok" THEN Commit(t1, S, ms, FirstChanges(t, id), avail)
                         ELSE Result(Done(t2, "error"), S, After(t.chat, t.anchor, outcome)),
                         FaultCost(outcome) + (IF avail THEN 0 ELSE 1),
                         UserDeleteCost(t.chat, t.anchor, outcome))

\* a handle_next without its check of current_page
NeedsCommandNever(pagination) == FALSE

\* `if not pagination["current_page"]:` (keyboards.py 160)
NeedsCommand(pagination) == ~Truthy(pagination.current_page)

\* a comparison that never finds the click to stay on its page
SamePageNever(next_page, current_page) == FALSE

\* `if next_page == pagination["current_page"]: return` (keyboards.py 165-166)
SamePage(next_page, current_page) == next_page = current_page

\* callback_query.answer() returns to on_update, which calls handle and so
\* handle_next up to its first await (90-94, 153-172)
HandleNextBegin(t, S, avail) ==
    LET got == get_user_data(S, t.user, avail)
        pagination == Row(got.S, t)
        step == CallbackStep(t.tail)
        next_page == clamp(pagination.current_page.i + step, 1, pagination.last_page.i)
        kwargs == loads(StripQuotes(pagination.kwargs.s))
        t1 == [t EXCEPT !.read_page = pagination.current_page.i]
    IN  IF ~CallbackStepOk(t.tail) THEN Result(Done(t, "error"), S, messages)
        \* update.effective_user.id of None: AttributeError (158)
        ELSE IF t.user = NoUser THEN Result(Done(t, "error"), S, messages)
        ELSE IF ~got.ok
             THEN Result(Done(Log(t, Event("get_user_data", None, 0, "failed")), "error"), S, messages)
        ELSE IF NeedsCommand(pagination)
             THEN Result(Log([t EXCEPT !.pc = "notice_reply", !.anchor = PyIntV(t.msg)],
                             Event("notice", PyIntV(t.msg), 0, "call")),
                         got.S, messages)
        ELSE IF pagination.last_page.t # "int" THEN Result(Done(t, "error"), got.S, messages)
        ELSE IF SamePage(next_page, pagination.current_page.i)
             THEN Result(Done(t1, "noop"), got.S, messages)
        ELSE IF pagination.kwargs.t # "str" \/ ~kwargs.ok
             THEN Result(Done(t1, "error"), got.S, messages)
        ELSE Result(Log([t1 EXCEPT !.pc = "next_get_data", !.next_page = next_page,
                                   !.identifier = kwargs.v],
                        Event("get_data", PyStrV(kwargs.v), next_page, "call")),
                    got.S, messages)

\* the answer to a callback query names no message; BadRequest (the query
\* is too old) is caught
Answer(i) ==
    /\ i \in TaskIds
    /\ tasks[i].pc = "answer"
    /\ \E outcome \in CallOutcomes, avail \in BOOLEAN :
          LET t == tasks[i]
              S == Storage(store, data_cache)
              t1 == Log(t, Event("answer", None, 0, outcome))
          IN  /\ CallAllowed(t.chat, None, outcome)
              /\ outcome = "error" => avail
              /\ ~avail => (t.user # NoUser /\ ~data_cache[t.user].loaded
                                /\ CallbackStepOk(t.tail))
              /\ Install(i,
                         IF outcome = "error" THEN Result(Done(t1, "error"), S, messages)
                         ELSE HandleNextBegin(t1, S, avail),
                         FaultCost(outcome) + (IF avail THEN 0 ELSE 1), 0)

\* reply_text("Please run the command again") returns to handle_next (161-162)
NoticeReply(i) ==
    /\ i \in TaskIds
    /\ tasks[i].pc = "notice_reply"
    /\ \E outcome \in CallOutcomes :
          LET t == tasks[i]
              S == Storage(store, data_cache)
              id == Len(messages[t.chat]) + 1
              ms == [messages EXCEPT ![t.chat] =
                        Append(@, Message("notice", t.user, t.table, 0, t.anchor, NoKeyboard))]
          IN  /\ CallAllowed(t.chat, t.anchor, outcome)
              /\ Install(i,
                         IF outcome = "ok"
                         THEN Result(Done(Log([t EXCEPT !.sent = id],
                                              Event("notice", t.anchor, id, "ok")),
                                          "notice"), S, ms)
                         ELSE Result(Done(Log(t, Event("notice", t.anchor, 0, outcome)), "error"),
                                     S, After(t.chat, t.anchor, outcome)),
                         FaultCost(outcome), UserDeleteCost(t.chat, t.anchor, outcome))

\* get_data(**kwargs) returns to handle_next, which calls generate_markup (172-176)
\* a handle_next that has the previous message deleted and dereferenced
\* before it fetches
NextGetDataAfterMarkup(i) ==
    /\ i \in TaskIds
    /\ tasks[i].pc = "next_get_data"
    /\ \E ok \in BOOLEAN :
          LET t == tasks[i]
              S == Storage(store, data_cache)
              t1 == Log(t, Event("get_data", PyStrV(t.identifier), t.next_page,
                                 IF ok THEN "ok" ELSE "error"))
          IN  Install(i,
                      IF ok THEN GenerateMarkupBegin(t1, S, t.next_page, Row(S, t).last_page.i, TRUE)
                      ELSE Result(Done(t1, "error"),
                                  set_user_data(S, t.user, t.table, ClearChanges, TRUE).S,
                                  Without(messages, t.chat, Row(S, t).message_id)),
                      IF ok THEN 0 ELSE 1, 0)

NextGetData(i) ==
    /\ i \in TaskIds
    /\ tasks[i].pc = "next_get_data"
    /\ \E ok \in BOOLEAN :
          LET t == tasks[i]
              S == Storage(store, data_cache)
              t1 == Log(t, Event("get_data", PyStrV(t.identifier), t.next_page,
                                 IF ok THEN "ok" ELSE "error"))
          IN  Install(i,
                      IF ok THEN GenerateMarkupBegin(t1, S, t.next_page, Row(S, t).last_page.i, TRUE)
                      ELSE Result(Done(t1, "error"), S, messages),
                      IF ok THEN 0 ELSE 1, 0)

\* a reply_html of handle_next has sent the page: commit (184)
NextSentCommitsPrevious(t, S, avail) ==
    LET id == Len(messages[t.chat]) + 1
        ms == [messages EXCEPT ![t.chat] =
                  Append(@, Message("page", t.user, t.table, t.next_page, t.anchor, t.keyboard))]
        t1 == Log([t EXCEPT !.sent = id], Event("reply", t.anchor, id, "ok"))
    IN  Commit(t1, S, ms, NextChanges(t, id - 1), avail)

NextSent(t, S, avail) ==
    LET id == Len(messages[t.chat]) + 1
        ms == [messages EXCEPT ![t.chat] =
                  Append(@, Message("page", t.user, t.table, t.next_page, t.anchor, t.keyboard))]
        t1 == Log([t EXCEPT !.sent = id], Event("reply", t.anchor, id, "ok"))
    IN  Commit(t1, S, ms, NextChanges(t, id), avail)

\* the reply of handle_next to the stored reply_id returns (177-184)
NextReply(i) ==
    /\ i \in TaskIds
    /\ tasks[i].pc = "next_reply"
    /\ \E outcome \in CallOutcomes, avail \in BOOLEAN :
          LET t == tasks[i]
              S == Storage(store, data_cache)
          IN  /\ CallAllowed(t.chat, t.anchor, outcome)
              /\ outcome # "ok" => avail
              /\ Install(i,
                         IF outcome = "ok" THEN NextSent(t, S, avail)
                         ELSE IF IsBadRequest(outcome)
                              THEN Result(Log(Log([t EXCEPT !.pc = "next_reply_fallback",
                                                            !.anchor = None],
                                                  Event("reply", t.anchor, 0, outcome)),
                                              Event("reply", None, 0, "call")),
                                          S, After(t.chat, t.anchor, outcome))
                         ELSE Result(Done(Log(t, Event("reply", t.anchor, 0, outcome)), "error"),
                                     S, messages),
                         FaultCost(outcome) + (IF avail THEN 0 ELSE 1),
                         UserDeleteCost(t.chat, t.anchor, outcome))

\* a fallback that sends again when its send is refused
NextReplyFallbackRetries(i) ==
    /\ i \in TaskIds
    /\ tasks[i].pc = "next_reply_fallback"
    /\ \E outcome \in CallOutcomes, avail \in BOOLEAN :
          LET t == tasks[i]
              S == Storage(store, data_cache)
          IN  /\ CallAllowed(t.chat, None, outcome)
              /\ outcome # "ok" => avail
              /\ Install(i,
                         IF outcome = "ok" THEN NextSent(t, S, avail)
                         ELSE IF outcome = "bad_request"
                              THEN Result(Log(Log(t, Event("reply", None, 0, outcome)),
                                              Event("reply", None, 0, "call")),
                                          S, messages)
                         ELSE Result(Done(Log(t, Event("reply", None, 0, outcome)), "error"),
                                     S, messages),
                         FaultCost(outcome) + (IF avail THEN 0 ELSE 1), 0)

\* the reply without reply_to_message_id returns (182-184)
NextReplyFallback(i) ==
    /\ i \in TaskIds
    /\ tasks[i].pc = "next_reply_fallback"
    /\ \E outcome \in CallOutcomes, avail \in BOOLEAN :
          LET t == tasks[i]
              S == Storage(store, data_cache)
          IN  /\ CallAllowed(t.chat, None, outcome)
              /\ outcome # "ok" => avail
              /\ Install(i,
                         IF outcome = "ok" THEN NextSent(t, S, avail)
                         ELSE Result(Done(Log(t, Event("reply", None, 0, outcome)), "error"),
                                     S, messages),
                         FaultCost(outcome) + (IF avail THEN 0 ELSE 1), 0)

Next ==
    \/ \E u \in Users, c \in MainChats, tb \in Tables, args \in ArgLists :
          UserSendsCommand(u, c, tb, args)
    \/ \E u \in Users, c \in MainChats, m \in 1..MaxMsgId, tail \in ClickTails :
          UserClicks(u, c, m, tail)
    \/ Restart
    \/ \E i \in 1..MaxUpdates :
          \/ ProcessUpdate(i)
          \/ FirstGetData(i)
          \/ DeleteMessage(i)
          \/ FirstReply(i)
          \/ Answer(i)
          \/ NoticeReply(i)
          \/ NextGetData(i)
          \/ NextReply(i)
          \/ NextReplyFallback(i)

Spec == Init /\ [][Next]_vars
(***************************************************************************)
(* The same program with one user who types identifiers that hold quote    *)
(* characters and spaces: '' (two single quotes), " and the two words a 7. *)
(***************************************************************************)
QuotedArgLists == { << <<"'", "'">> >>, << <<"\"">> >>, << <<"a">>, <<"7">> >> }

NextQuoted ==
    \/ \E args \in QuotedArgLists : UserSendsCommand("u1", "c1", "keyboard_anime", args)
    \/ \E m \in 1..MaxMsgId, tail \in ClickTails : UserClicks("u1", "c1", m, tail)
    \/ Restart
    \/ \E i \in 1..MaxUpdates :
          \/ ProcessUpdate(i)
          \/ FirstGetData(i)
          \/ DeleteMessage(i)
          \/ FirstReply(i)
          \/ Answer(i)
          \/ NoticeReply(i)
          \/ NextGetData(i)
          \/ NextReply(i)
          \/ NextReplyFallback(i)

SpecQuoted == Init /\ [][NextQuoted]_vars

(***************************************************************************)
(* The same program with one category, where u1 asks for items by their    *)
(* number and u2 searches, in a chat that hands out one more message id:   *)
(* each can press the buttons of u2's page after a query of their own.     *)
(***************************************************************************)
MaxMsgIdNumeric == 5

NextNumeric ==
    \/ UserSendsCommandUpTo(MaxMsgIdNumeric, "u1", "c1", "keyboard_anime", << <<"7">> >>)
    \/ UserSendsCommandUpTo(MaxMsgIdNumeric, "u2", "c1", "keyboard_anime", << <<"a">> >>)
    \/ \E user \in Users, m \in 1..MaxMsgIdNumeric, tail \in ClickTails :
          UserClicksUpTo(MaxMsgIdNumeric, user, "c1", m, tail)
    \/ Restart
    \/ \E i \in 1..MaxUpdates :
          \/ ProcessUpdate(i)
          \/ FirstGetData(i)
          \/ DeleteMessage(i)
          \/ FirstReply(i)
          \/ Answer(i)
          \/ NoticeReply(i)
          \/ NextGetData(i)
          \/ NextReply(i)
          \/ NextReplyFallback(i)

SpecNumeric == Init /\ [][NextNumeric]_vars

(***************************************************************************)
(* The same program with one user and one category, where the client also  *)
(* sends callback data that no button of the bot carries.                  *)
(***************************************************************************)
ForgedTails == {<<"x">>, <<"1", "x">>, <<"1", " ">>, <<"1", ":", "x">>}

NextForged ==
    \/ UserSendsCommand("u1", "c1", "keyboard_anime", << <<"a">> >>)
    \/ \E m \in 1..MaxMsgId, tail \in ClickTails \cup ForgedTails :
          UserClicks("u1", "c1", m, tail)
    \/ Restart
    \/ \E i \in 1..MaxUpdates :
          \/ ProcessUpdate(i)
          \/ FirstGetData(i)
          \/ DeleteMessage(i)
          \/ FirstReply(i)
          \/ Answer(i)
          \/ NoticeReply(i)
          \/ NextGetData(i)
          \/ NextReply(i)
          \/ NextReplyFallback(i)

SpecForged == Init /\ [][NextForged]_vars

(***************************************************************************)
(* The same program with one category, where both users search and press   *)
(* the buttons of any page, their own or the other's, in a chat that hands *)
(* out one more message id.                                                *)
(***************************************************************************)
NextShared ==
    \/ \E user \in Users :
          UserSendsCommandUpTo(MaxMsgIdNumeric, user, "c1", "keyboard_anime", << <<"a">> >>)
    \/ \E user \in Users, m \in 1..MaxMsgIdNumeric, tail \in ClickTails :
          UserClicksUpTo(MaxMsgIdNumeric, user, "c1", m, tail)
    \/ Restart
    \/ \E i \in 1..MaxUpdates :
          \/ ProcessUpdate(i)
          \/ FirstGetData(i)
          \/ DeleteMessage(i)
          \/ FirstReply(i)
          \/ Answer(i)
          \/ NoticeReply(i)
          \/ NextGetData(i)
          \/ NextReply(i)
          \/ NextReplyFallback(i)

SpecShared == Init /\ [][NextShared]_vars

(***************************************************************************)
(* The same program with one user and one category, where the user writes  *)
(* to the bot in two chats, with or without an identifier.                 *)
(***************************************************************************)
NextTwoChats ==
    \/ \E c \in Chats, args \in {<<>>, << <<"a">> >>} :
          UserSendsCommand("u1", c, "keyboard_anime", args)
    \/ \E c \in Chats, m \in 1..MaxMsgId, tail \in ClickTails :
          UserClicks("u1", c, m, tail)
    \/ Restart
    \/ \E i \in 1..MaxUpdates :
          \/ ProcessUpdate(i)
          \/ FirstGetData(i)
          \/ DeleteMessage(i)
          \/ FirstReply(i)
          \/ Answer(i)
          \/ NoticeReply(i)
          \/ NextGetData(i)
          \/ NextReply(i)
          \/ NextReplyFallback(i)

SpecTwoChats == Init /\ [][NextTwoChats]_vars

(***************************************************************************)
(* The same program with one user and one category, where callback         *)
(* queries also arrive in updates that have no effective user.             *)
(***************************************************************************)
NextNoUser ==
    \/ UserSendsCommand("u1", "c1", "keyboard_anime", << <<"a">> >>)
    \/ \E user \in {"u1", NoUser}, m \in 1..MaxMsgId, tail \in ClickTails :
          UserClicks(user, "c1", m, tail)
    \/ Restart
    \/ \E i \in 1..MaxUpdates :
          \/ ProcessUpdate(i)
          \/ FirstGetData(i)
          \/ DeleteMessage(i)
          \/ FirstReply(i)
          \/ Answer(i)
          \/ NoticeReply(i)
          \/ NextGetData(i)
          \/ NextReply(i)
          \/ NextReplyFallback(i)

SpecNoUser == Init /\ [][NextNoUser]_vars

(***************************************************************************)
(* The same program with one user and one category, who sends the command  *)
(* with or without an identifier, under the scheduling of the event loop:  *)
(* the update fetcher takes the next update once the handler before it has *)
(* returned, and every call a handler awaits returns, with success or with *)
(* failure, so a handler that can take its next step takes it.             *)
(***************************************************************************)
HandlerStep ==
    \E i \in 1..MaxUpdates :
        \/ ProcessUpdate(i)
        \/ FirstGetData(i)
        \/ DeleteMessage(i)
        \/ FirstReply(i)
        \/ Answer(i)
        \/ NoticeReply(i)
        \/ NextGetData(i)
        \/ NextReply(i)
        \/ NextReplyFallback(i)

NextLive ==
    \/ \E args \in {<<>>, << <<"a">> >>} : UserSendsCommand("u1", "c1", "keyboard_anime", args)
    \/ \E m \in 1..MaxMsgId, tail \in ClickTails : UserClicks("u1", "c1", m, tail)
    \/ Restart
    \/ HandlerStep

SpecLive == Init /\ [][NextLive]_vars /\ WF_vars(HandlerStep)

(***************************************************************************)
(* Properties.                                                             *)
(***************************************************************************)
\* the row of (u, tb) a fresh read of the store returns; a row not yet
\* inserted reads as the defaults INSERT OR IGNORE gives it
StoreRow(st, u, tb) == IF st[u][tb].present THEN st[u][tb].row ELSE DefaultRow
CacheRow(dc, u, tb) == dc[u].tables[tb]

\* the session a handler finds when it is called: the cached row, or the
\* stored row the cache will be loaded from
PreRow(t) ==
    IF t.pre.data_cache[t.user].loaded THEN CacheRow(t.pre.data_cache, t.user, t.table)
    ELSE StoreRow(t.pre.store, t.user, t.table)

Calls(t, op) == {k \in 1..Len(t.log) : t.log[k].op = op /\ t.log[k].r = "call"}
Returns(t, op) == {k \in 1..Len(t.log) : t.log[k].op = op /\ t.log[k].r # "call"}
\* every call the handler made and that has returned, returned without error
AllSucceeded(t) == \A k \in 1..Len(t.log) : t.log[k].r \in {"call", "ok"}
LastEvent(t) == t.log[Len(t.log)]

InRange(row) ==
    row.current_page # None =>
        /\ row.current_page.t = "int" /\ row.last_page.t = "int"
        /\ 1 <= row.current_page.i /\ row.current_page.i <= row.last_page.i

\* C1: after any sequence of initial queries and navigation clicks, every
\* committed PaginationState with a non-null current_page has
\* 1 <= current_page <= last_page, in the store and in data_cache (the
\* content API reports 1 <= current <= last).
C1_CurrentPageInRange ==
    \A u \in Users, tb \in Tables :
        /\ InRange(StoreRow(store, u, tb))
        /\ data_cache[u].loaded => InRange(CacheRow(data_cache, u, tb))

\* C1 witness: a click of step 2 on page 2 of 3 has committed page 3, the
\* upper end the clamp cut it to
C1_Witness ==
    \E i \in TaskIds :
        LET t == tasks[i]
        IN  /\ t.kind = "click" /\ t.pc = "done" /\ t.outcome = "committed"
            /\ t.tail = <<"2">> /\ t.read_page = 2
            /\ StoreRow(store, t.user, t.table).current_page = PyIntV(3)
            /\ StoreRow(store, t.user, t.table).last_page = PyIntV(3)
            /\ CacheRow(data_cache, t.user, t.table).current_page = PyIntV(3)

\* the steps of handle_next from its read of current_page to its commit
InTransaction(i) ==
    /\ tasks[i].kind = "click"
    /\ tasks[i].pc \in {"next_get_data", "delete_message", "next_reply", "next_reply_fallback"}
SameSession(i, j) == tasks[i].user = tasks[j].user /\ tasks[i].table = tasks[j].table
\* click j arrived while the click before it was in flight
Overlapping(j) ==
    /\ j > 1 /\ (j - 1) \in tasks[j].inflight
    /\ tasks[j - 1].kind = "click" /\ tasks[j].kind = "click" /\ SameSession(j - 1, j)

\* C2: two navigation clicks of one (user, category) in flight at the same
\* time do not interleave their read of current_page, computation and
\* commit: no two are between read and commit together; the later one reads
\* the page the earlier one committed, never the stale one, and renders
\* another page; when its calls succeed it commits too, so two clicks of
\* step s from page p with p + 2*s <= last_page end on page p + 2*s.
C2_ClicksDoNotInterleave ==
    /\ \A i, j \in TaskIds :
           (i # j /\ SameSession(i, j)) => ~(InTransaction(i) /\ InTransaction(j))
    /\ \A j \in TaskIds :
           (Overlapping(j) /\ tasks[j - 1].outcome = "committed") =>
               LET a == tasks[j - 1]
                   b == tasks[j]
                   row == StoreRow(store, b.user, b.table)
                   s == CallbackStep(a.tail)
               IN  /\ (InTransaction(j) \/ (b.pc = "done" /\ b.outcome \in {"noop", "committed"}))
                          => b.read_page = a.next_page
                   /\ (b.pc = "done" /\ b.outcome = "committed")
                          => /\ b.next_page # a.next_page
                             /\ row.current_page = PyIntV(b.next_page)
                             /\ CacheRow(data_cache, b.user, b.table).current_page = PyIntV(b.next_page)
                   /\ (b.pc = "done" /\ AllSucceeded(b) /\ a.tail = b.tail /\ s > 0
                          /\ a.read_page + 2 * s <= row.last_page.i)
                          => /\ b.outcome = "committed"
                             /\ row.current_page = PyIntV(a.read_page + 2 * s)

\* C2 witness: two clicks of step 1 that were in flight together have both
\* committed, from page 1 to page 3
C2_Witness ==
    \E j \in TaskIds :
        /\ Overlapping(j)
        /\ tasks[j - 1].outcome = "committed" /\ tasks[j - 1].read_page = 1
        /\ tasks[j - 1].tail = <<"1">> /\ tasks[j].tail = <<"1">>
        /\ tasks[j].pc = "done" /\ tasks[j].outcome = "committed"
        /\ StoreRow(store, tasks[j].user, tasks[j].table).current_page = PyIntV(3)

\* the cached value c carries no change the stored value s lacks: it is s, or
\* it is the text set_user_data put into its UPDATE and sqlite read as s
Agrees(c, s) == c = s \/ (SqlEval(PyStr(c)).ok /\ SqlEval(PyStr(c)).v = s)
FailedWrites(t) ==
    {k \in 1..Len(t.log) : t.log[k].op \in {"clear", "commit"} /\ t.log[k].r = "failed"}

\* C3: set_user_data writes the store first and the cache only after the
\* write succeeded.  In no reachable state does the cache hold a change the
\* store lacks; when a store write fails, the handler ends with the error,
\* the failed write is the last thing it did (no retry), and cache and
\* store are what they were before the call.
C3_StoreBeforeCache ==
    /\ \A u \in Users, tb \in Tables, f \in Fields :
           data_cache[u].loaded => Agrees(CacheRow(data_cache, u, tb)[f], StoreRow(store, u, tb)[f])
    /\ \A i \in TaskIds :
           (tasks[i].pc = "done" /\ FailedWrites(tasks[i]) # {}) =>
               /\ FailedWrites(tasks[i]) = {Len(tasks[i].log)}
               /\ tasks[i].outcome = "error"
               /\ data_cache = tasks[i].at_set.data_cache
               /\ store = tasks[i].at_set.store

\* C3 witness: the commit of a click failed at the store, with the session
\* in the cache
C3_Witness ==
    \E i \in TaskIds :
        /\ tasks[i].kind = "click" /\ tasks[i].pc = "done"
        /\ LastEvent(tasks[i]).op = "commit" /\ LastEvent(tasks[i]).r = "failed"
        /\ data_cache[tasks[i].user].loaded
        /\ Truthy(CacheRow(data_cache, tasks[i].user, tasks[i].table).current_page)

\* C4: after every successful set_user_data and every get_user_data, each
\* field of the cached copy of (user, category) equals what a fresh read of
\* the row from the store returns, message_id after generate_markup cleared
\* it and kwargs after an initial query included.
C4_CacheEqualsStore ==
    \A u \in Users, tb \in Tables, f \in Fields :
        data_cache[u].loaded => CacheRow(data_cache, u, tb)[f] = StoreRow(store, u, tb)[f]

\* C5: after an initial query with a non-empty identifier whose fetch and
\* render succeeded (and no collaborator failed), the committed
\* PaginationState has current_page = 1, last_page = the last page the
\* content API reported, message_id = the message just sent, reply_id =
\* the command message, and step at its default.
C5_InitialQueryCommits ==
    \A i \in TaskIds :
        LET t == tasks[i]
            row == StoreRow(store, t.user, t.table)
            cached == CacheRow(data_cache, t.user, t.table)
        IN  (t.kind = "command" /\ t.pc = "done" /\ t.identifier # <<>> /\ t.sent # 0
               /\ faults = 0) =>
                /\ row.current_page = PyIntV(1) /\ cached.current_page = PyIntV(1)
                /\ row.last_page = PyIntV(t.last) /\ cached.last_page = PyIntV(t.last)
                /\ row.message_id = PyIntV(t.sent) /\ cached.message_id = PyIntV(t.sent)
                /\ row.reply_id = PyIntV(t.msg) /\ cached.reply_id = PyIntV(t.msg)
                /\ row.step = PyIntV(1) /\ cached.step = PyIntV(1)

\* the target page of a click on the session its handler finds
Step(t) == CallbackStep(t.tail)
Target(t) == clamp(PreRow(t).current_page.i + Step(t), 1, PreRow(t).last_page.i)
Initialized(t) == PreRow(t).current_page # None

\* the log of a click that deletes the message `previous` (if any), fetches
\* page `page` of `identifier`, replies to `anchor` with message `id`, commits
RenderLog(previous, identifier, page, anchor, id) ==
    << Event("answer", None, 0, "call"), Event("answer", None, 0, "ok"),
       Event("get_data", PyStrV(identifier), page, "call"),
       Event("get_data", PyStrV(identifier), page, "ok") >>
    \o (IF Truthy(previous)
        THEN << Event("delete_message", previous, 0, "call"),
                Event("delete_message", previous, 0, "ok"),
                Event("clear", None, 0, "ok") >>
        ELSE << >>)
    \o << Event("reply", anchor, 0, "call"), Event("reply", anchor, id, "ok"),
          Event("commit", None, 0, "ok") >>

\* C6: a click of signed step s on an initialized session whose target
\* t = clamp(current_page + s, 1, last_page) differs from current_page, all
\* of whose calls succeed, deletes the message recorded as displayed,
\* fetches page t of the stored query, sends exactly one new message as a
\* reply to the stored reply_id, and commits current_page = t and
\* message_id = the id of the new message.
C6_ClickRendersTarget ==
    \A i \in TaskIds :
        LET t == tasks[i]
            pre == PreRow(t)
            row == StoreRow(store, t.user, t.table)
            cached == CacheRow(data_cache, t.user, t.table)
        IN  (t.kind = "click" /\ t.pc = "done" /\ Initialized(t)
               /\ Target(t) # pre.current_page.i /\ AllSucceeded(t)) =>
                /\ t.outcome = "committed"
                /\ t.log = RenderLog(pre.message_id, loads(StripQuotes(pre.kwargs.s)).v,
                                     Target(t), pre.reply_id, t.sent)
                /\ Truthy(pre.message_id) => ~Exists(messages, t.chat, pre.message_id)
                /\ t.sent \in 1..Len(messages[t.chat])
                /\ messages[t.chat][t.sent].kind = "page"
                /\ messages[t.chat][t.sent].page = Target(t)
                /\ messages[t.chat][t.sent].anchor = pre.reply_id
                /\ row.current_page = PyIntV(Target(t)) /\ cached.current_page = PyIntV(Target(t))
                /\ row.message_id = PyIntV(t.sent) /\ cached.message_id = PyIntV(t.sent)

\* C6 witness: a click of step +1 on page 1 of 3 has deleted the page shown
\* and committed page 2
C6_Witness ==
    \E i \in TaskIds :
        LET t == tasks[i]
        IN  /\ t.kind = "click" /\ t.pc = "done" /\ AllSucceeded(t) /\ t.tail = <<"1">>
            /\ PreRow(t).current_page = PyIntV(1) /\ PreRow(t).last_page = PyIntV(3)
            /\ Truthy(PreRow(t).message_id)
            /\ StoreRow(store, t.user, t.table).current_page = PyIntV(2)

\* the handler of t made no call to the content API or to the chat other
\* than the answer to the callback query, and wrote nothing
OnlyAnswered(t) ==
    /\ \A k \in 1..Len(t.log) : t.log[k].op \in {"answer", "get_user_data"}
    /\ t.sent = 0

\* the cache is what the handler of t found, or has been loaded from the
\* store for the user of t and holds the stored rows
CacheUntouched(t) ==
    IF t.pre.data_cache[t.user].loaded THEN data_cache = t.pre.data_cache
    ELSE /\ \A u \in Users \ {t.user} : data_cache[u] = t.pre.data_cache[u]
         /\ data_cache[t.user].loaded =>
                \A tb \in Tables : CacheRow(data_cache, t.user, tb) = StoreRow(t.pre.store, t.user, tb)

\* C7: a click whose clamped target equals current_page (backward on page
\* 1, forward on the last page) is a no-op: no field of the
\* PaginationState changes in cache or store, no content is fetched, no
\* message is deleted and none is sent.
C7_BoundaryClickNoOp ==
    \A i \in TaskIds :
        LET t == tasks[i]
        IN  (t.kind = "click" /\ t.pc = "done" /\ Initialized(t)
               /\ Target(t) = PreRow(t).current_page.i) =>
                /\ t.outcome \in {"noop", "error"}
                /\ AllSucceeded(t) => t.outcome = "noop"
                /\ OnlyAnswered(t)
                /\ store = t.pre.store
                /\ CacheUntouched(t)

\* C7 witness: Previous pressed on page 1 has ended as a no-op
C7_Witness ==
    \E i \in TaskIds :
        /\ tasks[i].kind = "click" /\ tasks[i].pc = "done" /\ tasks[i].outcome = "noop"
        /\ tasks[i].tail = <<"-", "1">> /\ PreRow(tasks[i]).current_page = PyIntV(1)
        /\ OnlyAnswered(tasks[i])

\* the store differs from what the handler of t found at most by the rows
\* setup_data_cache inserted, with their defaults, for the user of t
OnlyDefaultRowsCreated(t) ==
    \A u \in Users, tb \in Tables :
        \/ store[u][tb] = t.pre.store[u][tb]
        \/ /\ u = t.user /\ ~t.pre.store[u][tb].present
           /\ store[u][tb] = [present |-> TRUE, row |-> DefaultRow]

\* what C8 says of a click on a session whose current_page is null, but for
\* the store: the user is told to run the command again, nothing is
\* fetched or deleted, and the handler fails only if one of its calls did
NoticeOnly(t) ==
    /\ \A k \in 1..Len(t.log) : t.log[k].op \in {"answer", "get_user_data", "notice"}
    /\ t.outcome \in {"notice", "error"}
    /\ t.outcome = "error" => ~AllSucceeded(t)
    /\ t.outcome = "notice" =>
           /\ Cardinality(Calls(t, "notice")) = 1
           /\ t.sent \in 1..Len(messages[t.chat])
           /\ messages[t.chat][t.sent].kind = "notice"
           /\ messages[t.chat][t.sent].anchor = PyIntV(t.msg)

UninitializedClick(t) == t.kind = "click" /\ t.pc = "done" /\ ~Initialized(t)

\* C8 as stated: a click for a (user, category) whose current_page is null,
\* a click by a user without a row in the store included, makes the bot
\* tell the user to run the command again, issues no fetch and no delete,
\* does not crash, and performs no mutation of the store.
C8_NoStoreMutation ==
    \A i \in TaskIds :
        UninitializedClick(tasks[i]) => (NoticeOnly(tasks[i]) /\ store = tasks[i].pre.store)

\* C8, amended: such a click makes the bot tell the user to run the
\* command again, issues no fetch and no delete, fails only if a call
\* fails, and changes no field of any stored PaginationState; the only
\* change to the store is that the first access of a user without rows
\* inserts the user's rows with their defaults.
C8_OnlyDefaultRows ==
    \A i \in TaskIds :
        UninitializedClick(tasks[i]) =>
            /\ NoticeOnly(tasks[i])
            /\ OnlyDefaultRowsCreated(tasks[i])
            /\ \A u \in Users, tb \in Tables :
                   StoreRow(store, u, tb) = StoreRow(tasks[i].pre.store, u, tb)

\* C8 witness: a user without rows in the store has pressed a button of
\* another user's page, has got the notice, and has rows now
C8_Witness ==
    \E i \in TaskIds :
        LET t == tasks[i]
        IN  /\ UninitializedClick(t) /\ t.outcome = "notice"
            /\ \A tb \in Tables : ~t.pre.store[t.user][tb].present /\ store[t.user][tb].present

\* no reply_html of the handler of t has returned a message yet
NothingSent(t) == \A k \in 1..Len(t.log) : ~(t.log[k].op = "reply" /\ t.log[k].r = "ok")
\* the last thing the handler of t did was a reply_html that failed
FinalSendFailed(t) ==
    /\ t.pc = "done" /\ t.log # <<>>
    /\ LastEvent(t).op = "reply" /\ LastEvent(t).r \notin {"call", "ok"}

\* the session of t holds the query, pages and anchor its handler found,
\* and its message_id is the one found or has been cleared
SessionKept(t) ==
    LET row == StoreRow(store, t.user, t.table)
        before == StoreRow(t.pre.store, t.user, t.table)
        cached == CacheRow(data_cache, t.user, t.table)
    IN  /\ \A f \in {"current_page", "last_page", "kwargs", "reply_id"} :
               /\ row[f] = before[f]
               /\ data_cache[t.user].loaded => cached[f] = PreRow(t)[f]
        /\ row.message_id \in {before.message_id, None}
        /\ data_cache[t.user].loaded =>
               cached.message_id \in {PreRow(t).message_id, PyStrV(<<"N", "U", "L", "L">>)}

\* C9: in the initial query and in the navigation click, current_page and
\* message_id (and kwargs, last_page, reply_id of an initial query) are
\* committed only after the final send succeeded: until a reply_html has
\* returned a message, current_page, last_page, kwargs and reply_id are
\* what they were before the operation and message_id is the old one or
\* cleared; a commit directly follows a successful send; a failed final
\* send ends the handler with the error.
C9_CommitOnlyAfterSend ==
    \A i \in TaskIds :
        LET t == tasks[i]
        IN  /\ ((Running(i) \/ t.pc = "done") /\ NothingSent(t)) => SessionKept(t)
            /\ \A k \in 1..Len(t.log) :
                   t.log[k].op = "commit" =>
                       (k > 1 /\ t.log[k - 1].op = "reply" /\ t.log[k - 1].r = "ok")
            /\ FinalSendFailed(t) => (t.outcome = "error" /\ NothingSent(t))

\* C9 witness: the final send of a click failed after the page shown had
\* been deleted and its message_id cleared; the click ended with the error
\* and the session is still on the page it was on
C9_Witness ==
    \E i \in TaskIds :
        LET t == tasks[i]
        IN  /\ t.kind = "click" /\ FinalSendFailed(t) /\ t.outcome = "error"
            /\ Returns(t, "clear") # {}
            /\ StoreRow(store, t.user, t.table).message_id = None
            /\ StoreRow(store, t.user, t.table).current_page = PyIntV(t.read_page)
            /\ t.next_page # t.read_page

OthersSucceeded(t, op) ==
    \A k \in 1..Len(t.log) : t.log[k].op # op => t.log[k].r \in {"call", "ok"}
\* the delete_message of the handler of t came back with BadRequest
DeleteRefused(t) ==
    \E k \in Returns(t, "delete_message") : t.log[k].r \in {"gone", "bad_request"}

\* C11: when the deletion of the message shown before fails because the
\* message no longer exists (BadRequest), a click whose other calls succeed
\* is not aborted: it sends the page of its target and commits
\* current_page = target and message_id = the message sent.
C11_DeleteFailureSwallowed ==
    \A i \in TaskIds :
        LET t == tasks[i]
            row == StoreRow(store, t.user, t.table)
            cached == CacheRow(data_cache, t.user, t.table)
        IN  (t.kind = "click" /\ t.pc = "done" /\ DeleteRefused(t)
               /\ OthersSucceeded(t, "delete_message")) =>
                /\ t.outcome = "committed"
                /\ t.sent \in 1..Len(messages[t.chat])
                /\ messages[t.chat][t.sent].kind = "page"
                /\ messages[t.chat][t.sent].page = Target(t)
                /\ row.current_page = PyIntV(Target(t)) /\ cached.current_page = PyIntV(Target(t))
                /\ row.message_id = PyIntV(t.sent) /\ cached.message_id = PyIntV(t.sent)

\* C11 witness: the page shown was gone when a click asked for its
\* deletion, and the click has committed its target page all the same
C11_Witness ==
    \E i \in TaskIds :
        LET t == tasks[i]
        IN  /\ t.kind = "click" /\ t.pc = "done" /\ t.outcome = "committed"
            /\ \E k \in Returns(t, "delete_message") : t.log[k].r = "gone"
            /\ t.next_page # t.read_page
            /\ StoreRow(store, t.user, t.table).current_page = PyIntV(t.next_page)

\* the identifier handle_next decodes from a kwargs value (168-169)
Decoded(kwargs) ==
    IF kwargs.t = "str" THEN loads(StripQuotes(kwargs.s)) ELSE [ok |-> FALSE, v |-> <<>>]

\* C12: for every non-empty identifier of an initial query whose render
\* succeeded (and no collaborator failed), the commit succeeds and the
\* kwargs read back afterwards, from the cache and from the store, decode
\* to exactly that identifier.
C12_IdentifierRoundTrip ==
    \A i \in TaskIds :
        LET t == tasks[i]
            expected == [ok |-> TRUE, v |-> t.identifier]
        IN  (t.kind = "command" /\ t.pc = "done" /\ t.identifier # <<>> /\ t.sent # 0
               /\ faults = 0) =>
                /\ t.outcome = "committed"
                /\ Decoded(CacheRow(data_cache, t.user, t.table).kwargs) = expected
                /\ Decoded(StoreRow(store, t.user, t.table).kwargs) = expected

\* C13: the fetch request a click derives from the stored kwargs, from the
\* live cache or from a row re-read from the store, has the identifier of
\* the fetch request of the session's initial query, and the target page
\* as its page (handle_first and handle_next both leave per_page and
\* language to the defaults of get_data).  Stated step by step: a committed
\* initial query leaves kwargs that decode to its identifier, in the cache
\* and in the store; the request of a click has the identifier that the
\* session's kwargs decode to in the cache and in the store alike, and the
\* page of the click's target.
C13_SameFetchRequest ==
    \A i \in TaskIds :
        LET t == tasks[i]
        IN  /\ (t.kind = "command" /\ t.pc = "done" /\ t.outcome = "committed") =>
                   /\ Decoded(CacheRow(data_cache, t.user, t.table).kwargs).v = t.identifier
                   /\ Decoded(StoreRow(store, t.user, t.table).kwargs).v = t.identifier
            /\ t.kind = "click" =>
                   \A k \in Calls(t, "get_data") :
                       /\ t.log[k].v = PyStrV(Decoded(PreRow(t).kwargs).v)
                       /\ t.log[k].v = PyStrV(Decoded(StoreRow(t.pre.store, t.user, t.table).kwargs).v)
                       /\ t.log[k].n = Target(t)

\* C14: a restart between completed operations loses no committed state,
\* and a click does the same with and without it.  After a restart the
\* cache is loaded from the store, so this says: what a click does is what
\* the row committed in the store dictates, whether its handler found the
\* session in the cache or had to load it.  A cache loaded by the click
\* holds the stored rows; the fetch request is for the stored query and
\* the target computed from the stored pages; a delete request is issued
\* exactly for the stored message_id; the reply is anchored to the stored
\* reply_id; the commit records the target and the message sent.
C14_RestartEquivalent ==
    \A i \in TaskIds :
        LET t == tasks[i]
            before == StoreRow(t.pre.store, t.user, t.table)
            target == clamp(before.current_page.i + Step(t), 1, before.last_page.i)
        IN  t.kind = "click" =>
                /\ (t.pc = "done" /\ t.outcome \in {"noop", "notice"}
                      /\ ~t.pre.data_cache[t.user].loaded) =>
                       CacheRow(data_cache, t.user, t.table) = StoreRow(store, t.user, t.table)
                /\ \A k \in Calls(t, "get_data") :
                       /\ t.log[k].v = PyStrV(Decoded(before.kwargs).v)
                       /\ t.log[k].n = target
                /\ \A k \in Calls(t, "delete_message") : t.log[k].v = before.message_id
                /\ \A k \in Calls(t, "reply") :
                       /\ before.message_id # None => Calls(t, "delete_message") # {}
                       /\ t.log[k].v \in {before.reply_id, None}
                /\ (t.pc = "done" /\ t.outcome = "committed") =>
                       /\ StoreRow(store, t.user, t.table).current_page = PyIntV(target)
                       /\ StoreRow(store, t.user, t.table).message_id = PyIntV(t.sent)

\* the session the handler of t finds was set up by a query for an item by
\* its number
NumericSession(t) ==
    /\ Initialized(t)
    /\ Decoded(PreRow(t).kwargs).ok
    /\ Decoded(PreRow(t).kwargs).v # <<>>
    /\ isnumeric(Decoded(PreRow(t).kwargs).v)

\* C15: an initial query whose identifier is purely numeric renders a
\* message without Previous or Next, commits last_page = 1 (it commits
\* whenever all its calls succeed), and every later click on that session,
\* whatever the sign and the size of its step, is a no-op: nothing is
\* fetched, deleted or sent, and neither the store nor the cache changes.
C15_NumericSinglePage ==
    \A i \in TaskIds :
        LET t == tasks[i]
        IN  /\ (t.kind = "command" /\ t.pc = "done" /\ t.identifier # <<>>
                   /\ isnumeric(t.identifier) /\ t.sent # 0) =>
                   /\ t.last = 1
                   /\ ~messages[t.chat][t.sent].previous
                   /\ ~messages[t.chat][t.sent].next
                   /\ AllSucceeded(t) => t.outcome = "committed"
                   /\ t.outcome = "committed" =>
                          /\ StoreRow(store, t.user, t.table).last_page = PyIntV(1)
                          /\ StoreRow(store, t.user, t.table).current_page = PyIntV(1)
                          /\ CacheRow(data_cache, t.user, t.table).last_page = PyIntV(1)
            /\ (t.kind = "click" /\ t.pc \notin {"queued", "retired"} /\ NumericSession(t)) =>
                   /\ PreRow(t).last_page = PyIntV(1)
                   /\ t.pc = "done" =>
                          /\ t.outcome \in {"noop", "error"}
                          /\ AllSucceeded(t) => t.outcome = "noop"
                          /\ OnlyAnswered(t)
                          /\ store = t.pre.store
                          /\ CacheUntouched(t)

\* C15 witness: after a committed query for item 7, a click of step 2 on
\* that session (pressed on another user's page) has ended as a no-op
C15_Witness ==
    \E i, j \in TaskIds :
        /\ tasks[i].kind = "command" /\ tasks[i].outcome = "committed"
        /\ tasks[i].user = tasks[j].user /\ i < j
        /\ tasks[j].kind = "click" /\ tasks[j].pc = "done" /\ tasks[j].outcome = "noop"
        /\ tasks[j].tail = <<"2">> /\ NumericSession(tasks[j])
        /\ OnlyAnswered(tasks[j])
        /\ StoreRow(store, tasks[j].user, tasks[j].table).last_page = PyIntV(1)

\* the fields of a PaginationState that navigation may change
NavigationFields == {"current_page", "message_id", "reply_id", "last_page"}

\* C16: a navigation click leaves kwargs and step as its handler found
\* them, in the store and in the cache, for every user and category: of
\* a PaginationState it changes at most current_page, message_id, reply_id
\* and last_page.  (Only handle_first writes kwargs, so kwargs stays the
\* same from one initial query to the next.)
C16_ClickKeepsQuery ==
    \A i \in TaskIds :
        LET t == tasks[i]
        IN  (t.kind = "click" /\ t.pc \notin {"queued", "retired"}) =>
                \A u \in Users, tb \in Tables, f \in Fields \ NavigationFields :
                    /\ StoreRow(store, u, tb)[f] = StoreRow(t.pre.store, u, tb)[f]
                    /\ data_cache[u].loaded =>
                           CacheRow(data_cache, u, tb)[f] =
                               IF t.pre.data_cache[u].loaded
                               THEN CacheRow(t.pre.data_cache, u, tb)[f]
                               ELSE StoreRow(t.pre.store, u, tb)[f]

\* C16 witness: a click has committed another page and another message for
\* a session whose kwargs hold a query
C16_Witness ==
    \E i \in TaskIds :
        LET t == tasks[i]
            row == StoreRow(store, t.user, t.table)
        IN  /\ t.kind = "click" /\ t.pc = "done" /\ t.outcome = "committed"
            /\ Decoded(PreRow(t).kwargs).ok
            /\ row.current_page # StoreRow(t.pre.store, t.user, t.table).current_page
            /\ row.message_id # StoreRow(t.pre.store, t.user, t.table).message_id
            /\ row.kwargs = StoreRow(t.pre.store, t.user, t.table).kwargs

\* the anchored reply of the click t came back refused (the anchor is gone,
\* or another BadRequest) at position k of its log
AnchorRefused(t, k) ==
    /\ k \in Returns(t, "reply")
    /\ t.log[k].v # None
    /\ t.log[k].r \in {"gone", "bad_request"}

\* C17: when the reply of a click to the stored reply_id is refused because
\* the anchor is gone, the next thing the handler does is send the same
\* page, with the same keyboard, without an anchor; when that send and the
\* commit succeed, exactly one message has been sent, it has no anchor, the
\* commit records its id and the target page, in the store and in the
\* cache, and the click ends committed.
C17_UnanchoredFallback ==
    \A i \in TaskIds :
        LET t == tasks[i]
            row == StoreRow(store, t.user, t.table)
            cached == CacheRow(data_cache, t.user, t.table)
        IN  (t.kind = "click" /\ t.pc \notin {"queued", "retired"}) =>
                \A k \in 1..Len(t.log) :
                    AnchorRefused(t, k) =>
                        /\ t.log[k].v = PreRow(t).reply_id
                        /\ Len(t.log) > k
                        /\ t.log[k + 1] = Event("reply", None, 0, "call")
                        /\ (t.pc = "done"
                              /\ \A j \in (k + 1)..Len(t.log) : t.log[j].r \in {"call", "ok"}) =>
                               /\ t.outcome = "committed"
                               /\ Cardinality({j \in Returns(t, "reply") : t.log[j].r = "ok"}) = 1
                               /\ t.sent = Len(messages[t.chat])
                               /\ messages[t.chat][t.sent].kind = "page"
                               /\ messages[t.chat][t.sent].anchor = None
                               /\ messages[t.chat][t.sent].page = t.next_page
                               /\ messages[t.chat][t.sent].previous = t.keyboard.previous
                               /\ messages[t.chat][t.sent].next = t.keyboard.next
                               /\ row.message_id = PyIntV(t.sent)
                               /\ cached.message_id = PyIntV(t.sent)
                               /\ row.current_page = PyIntV(t.next_page)
                               /\ cached.current_page = PyIntV(t.next_page)

\* C17 witness: the command message a session is anchored to was deleted,
\* a click on that session was refused its anchored reply, and has
\* committed the page it sent without an anchor
C17_Witness ==
    \E i \in TaskIds :
        LET t == tasks[i]
        IN  /\ t.kind = "click" /\ t.pc = "done" /\ t.outcome = "committed"
            /\ \E k \in 1..Len(t.log) : AnchorRefused(t, k) /\ t.log[k].r = "gone"
            /\ ~Exists(messages, t.chat, PreRow(t).reply_id)
            /\ messages[t.chat][t.sent].anchor = None
            /\ StoreRow(store, t.user, t.table).message_id = PyIntV(t.sent)

\* the callback data "<category>:<tail>" is a category, a colon and an
\* optionally signed decimal integer, and nothing else
WellFormed(tail) ==
    \/ AllDigits(tail)
    \/ Len(tail) > 1 /\ tail[1] = "-" /\ AllDigits(Tail(tail))

\* C18: a callback whose data is not exactly "<category>:" and an
\* optionally signed decimal integer (data with characters after such a
\* prefix included) is rejected: the PaginationState of no user changes in
\* the cache or in the store, no message is sent or deleted, nothing is
\* fetched and no error is reported.
C18_MalformedRejected ==
    \A i \in TaskIds :
        LET t == tasks[i]
        IN  (t.kind = "click" /\ t.pc \notin {"queued", "retired"} /\ ~WellFormed(t.tail)) =>
                /\ t.outcome # "error"
                /\ OnlyAnswered(t)
                /\ store = t.pre.store
                /\ CacheUntouched(t)

\* C19: an initial query whose identifier is empty (context.args holds no
\* word: the command came alone or followed by white space only) aborts
\* silently: the handler makes no call (nothing is fetched, sent or
\* deleted), the cache gets no entry, the store gets no row, and no error
\* is raised.  (LOG_CHAT_IDS is at its default, the empty list, so
\* log_command_usage sends nothing either.)
C19_EmptyIdentifierAborts ==
    \A i \in TaskIds :
        LET t == tasks[i]
        IN  (t.kind = "command" /\ t.pc \notin {"queued", "retired"}
               /\ strip(JoinArgs(t.args)) = <<>>) =>
                /\ t.pc = "done"
                /\ t.outcome = "abort"
                /\ t.log = <<>>
                /\ t.sent = 0
                /\ store = t.pre.store
                /\ data_cache = t.pre.data_cache

\* C19 witness: the first command of a user came without an identifier and
\* was aborted, leaving the user without cache entry and without row,
\* while another user has one
C19_Witness ==
    \E i \in TaskIds :
        LET t == tasks[i]
        IN  /\ t.kind = "command" /\ t.pc = "done" /\ t.args = <<>> /\ t.outcome = "abort"
            /\ ~data_cache[t.user].loaded
            /\ \A tb \in Tables : ~store[t.user][tb].present
            /\ \E u \in Users, tb \in Tables : store[u][tb].present

\* what get_user_data does for every user in the state reached: on a miss
\* it fails if sqlite does not answer, and otherwise leaves the user's entry
\* in the cache, holding for each category the stored row (the default row
\* where none was stored), other users' entries and rows being untouched;
\* on a hit it succeeds whether sqlite answers or not, and leaves the store
\* and the cache as they are
ReadThrough ==
    \A u \in Users, avail \in BOOLEAN :
        LET S == Storage(store, data_cache)
            got == get_user_data(S, u, avail)
        IN  IF data_cache[u].loaded
            THEN got.ok /\ got.S = S
            ELSE /\ got.ok = avail
                 /\ ~got.ok => got.S = S
                 /\ got.ok =>
                        /\ got.S.data_cache[u].loaded
                        /\ \A tb \in Tables :
                               /\ CacheRow(got.S.data_cache, u, tb) = StoreRow(store, u, tb)
                               /\ got.S.store[u][tb].present
                               /\ got.S.store[u][tb].row = StoreRow(store, u, tb)
                        /\ \A v \in Users \ {u} :
                               /\ got.S.data_cache[v] = data_cache[v]
                               /\ got.S.store[v] = store[v]

\* a click handler that has read its session has the user's entry in the cache
ReadLeavesEntry ==
    \A i \in TaskIds :
        (tasks[i].kind = "click"
           /\ tasks[i].pc \in {"notice_reply", "next_get_data", "delete_message",
                               "next_reply", "next_reply_fallback"}) =>
            data_cache[tasks[i].user].loaded

\* C20: get_user_data on a cache miss fills the user's entry from the
\* store before it returns, and on a hit returns the cached table without
\* reading or writing the store; and an entry of the cache is removed by
\* nothing but a restart of the process.
C20_ReadThroughCache ==
    /\ [](ReadThrough /\ ReadLeavesEntry)
    /\ [][\A u \in Users :
             (data_cache[u].loaded /\ ~data_cache'[u].loaded) => restarts' = restarts + 1]_vars

\* C20 witness: after a restart, a click found no entry for its user and a
\* committed session in the store; its handler has loaded the entry with
\* the stored rows and ended without writing
C20_Witness ==
    \E i \in TaskIds :
        LET t == tasks[i]
        IN  /\ t.kind = "click" /\ t.pc = "done" /\ t.outcome = "noop"
            /\ restarts = 1
            /\ ~t.pre.data_cache[t.user].loaded
            /\ Truthy(StoreRow(t.pre.store, t.user, t.table).current_page)
            /\ data_cache[t.user].loaded
            /\ \A tb \in Tables : CacheRow(data_cache, t.user, tb) = StoreRow(t.pre.store, t.user, tb)
            /\ store = t.pre.store

\* a row holding the defaults of the table definition (storage.py 23):
\* step 1, every other column null
HasDefaults(row) ==
    /\ row.step = PyIntV(1)
    /\ \A f \in Fields \ {"step"} : row[f] = None

\* what the row creation of setup_data_cache does for every user in the
\* state reached: each table gets the user's row with the defaults where
\* it had none, a row that exists keeps every column, other users' rows
\* are untouched, and doing it again changes nothing
LazyCreationIdempotent ==
    \A u \in Users :
        LET S == Storage(store, data_cache)
            once == setup_data_cache(S, u)
            twice == setup_data_cache(once, u)
        IN  /\ \A tb \in Tables :
                   /\ once.store[u][tb].present
                   /\ store[u][tb].present => once.store[u][tb].row = store[u][tb].row
                   /\ ~store[u][tb].present => HasDefaults(once.store[u][tb].row)
            /\ \A v \in Users \ {u} : once.store[v] = store[v]
            /\ twice.store = once.store

\* C21: the store holds one optional row per (user, category) (user_id is
\* the PRIMARY KEY of each table, and rows are inserted with INSERT OR
\* IGNORE only); the row creation done on a cache miss is idempotent: it
\* creates a row with the defaults where none exists and leaves every
\* column of a row that exists; and no step of the program deletes a row
\* or creates one with anything but the defaults or what the same step
\* writes for the user it handles.
C21_OneRowLazilyCreated ==
    /\ [](LazyCreationIdempotent
           /\ \A u \in Users : data_cache[u].loaded =>
                  \A tb \in Tables : store[u][tb].present)
    /\ [][\A u \in Users, tb \in Tables :
             /\ store[u][tb].present => store'[u][tb].present
             /\ (~store[u][tb].present /\ store'[u][tb].present) =>
                    /\ HasDefaults(store'[u][tb].row)
                    /\ data_cache'[u].loaded]_vars

\* C21 witness: a user's rows were created on their first query; after a
\* restart the cache was loaded again, and the row of the category they
\* asked for still holds the session while the other still holds the
\* defaults
C21_Witness ==
    \E u \in Users :
        /\ restarts = 1
        /\ data_cache[u].loaded
        /\ store[u]["keyboard_anime"].present
        /\ Truthy(store[u]["keyboard_anime"].row.current_page)
        /\ store[u]["keyboard_manga"].present
        /\ HasDefaults(store[u]["keyboard_manga"].row)
        /\ CacheRow(data_cache, u, "keyboard_anime") = store[u]["keyboard_anime"].row

\* the PaginationState of (u, tb) as a handler would read it in state S:
\* the cached row, or the stored row the cache would be loaded from
SessionView(S, u, tb) ==
    IF S.data_cache[u].loaded THEN CacheRow(S.data_cache, u, tb) ELSE StoreRow(S.store, u, tb)

\* C22: while and after an initial query or a click is handled for user u
\* and category c, every field of the PaginationState of every other
\* (user, category) pair is what it was when the handler was called, in
\* the store and in the cache; so a click of u on a button of a message
\* rendered for another user leaves that user's state alone.
C22_OtherSessionsUntouched ==
    \A i \in TaskIds :
        LET t == tasks[i]
        IN  t.pc \notin {"queued", "retired"} =>
                \A u \in Users, tb \in Tables :
                    (u # t.user \/ tb # t.table) =>
                        /\ StoreRow(store, u, tb) = StoreRow(t.pre.store, u, tb)
                        /\ SessionView(Storage(store, data_cache), u, tb) = SessionView(t.pre, u, tb)
                        /\ u # t.user => /\ store[u] = t.pre.store[u]
                                         /\ data_cache[u] = t.pre.data_cache[u]

\* C22 witness: a user with a session of their own has pressed Next on the
\* page rendered for the other user and committed another page of their
\* own session; the other user's session is as it was
C22_Witness ==
    \E i \in TaskIds :
        LET t == tasks[i]
        IN  /\ t.kind = "click" /\ t.pc = "done" /\ t.outcome = "committed"
            /\ messages[t.chat][t.msg].user # t.user
            /\ StoreRow(store, t.user, t.table).current_page # StoreRow(t.pre.store, t.user, t.table).current_page
            /\ \E v \in Users \ {t.user} :
                   /\ Truthy(StoreRow(store, v, t.table).current_page)
                   /\ StoreRow(store, v, t.table).message_id = PyIntV(t.msg)
                   /\ store[v] = t.pre.store[v]

\* the pages of the chat that carry a button
Pages(chat) ==
    {m \in 1..Len(messages[chat]) :
        messages[chat][m].kind = "page" /\ (messages[chat][m].previous \/ messages[chat][m].next)}

\* C23: every button of every page the bot has sent carries, after
\* "<category>:", the stored step of the session: with a minus sign for
\* Previous, as it is for Next; the category's pattern accepts that data,
\* handle_next parses it back to -step and +step, and it is data a press
\* of the button delivers.
C23_ButtonPayloadRoundTrip ==
    \A chat \in Chats : \A m \in Pages(chat) :
        LET msg == messages[chat][m]
            previous == callback_data_previous(msg.step)
            next == callback_data_next(msg.step)
        IN  /\ msg.step.t = "int" /\ msg.step.i > 0
            /\ msg.step = StoreRow(store, msg.user, msg.table).step
            /\ msg.previous =>
                   /\ PatternMatches(previous) /\ WellFormed(previous)
                   /\ CallbackStepOk(previous) /\ CallbackStep(previous) = -msg.step.i
                   /\ previous \in ClickTails
            /\ msg.next =>
                   /\ PatternMatches(next) /\ WellFormed(next)
                   /\ CallbackStepOk(next) /\ CallbackStep(next) = msg.step.i
                   /\ next \in ClickTails

\* C23 witness: page 2 of 3 is displayed with both buttons, and a press of
\* its Previous button, carrying "-1", has been handled as a step of -1
C23_Witness ==
    \E i \in TaskIds :
        LET t == tasks[i]
        IN  /\ t.kind = "click" /\ t.pc = "done" /\ t.outcome = "committed"
            /\ messages[t.chat][t.msg].previous /\ messages[t.chat][t.msg].next
            /\ t.tail = callback_data_previous(messages[t.chat][t.msg].step)
            /\ t.read_page = 2 /\ t.next_page = 1

\* the pages and steps clamp is tried on
MaxClampLast == 4
MaxClampStep == 9

\* C24: for every last_page >= 1, every current_page in 1..last_page and
\* every integer step, negative, zero or positive and however large,
\* clamp(current_page + step, 1, last_page) lies in 1..last_page: it is
\* current_page + step where that is a page, page 1 below and last_page
\* above, never a page reached by wrapping around; and the page every
\* click has computed lies within the pages of its session.
C24_ClampInRange ==
    /\ \A last_page \in 1..MaxClampLast : \A current_page \in 1..last_page :
           \A step \in (-MaxClampStep)..MaxClampStep :
               LET target == clamp(current_page + step, 1, last_page)
               IN  /\ target \in 1..last_page
                   /\ (current_page + step \in 1..last_page) => target = current_page + step
                   /\ current_page + step < 1 => target = 1
                   /\ current_page + step > last_page => target = last_page
    /\ \A i \in TaskIds :
           (tasks[i].kind = "click" /\ tasks[i].pc \in {"next_get_data", "delete_message",
                                                        "next_reply", "next_reply_fallback"}) =>
               /\ tasks[i].next_page = Target(tasks[i])
               /\ tasks[i].next_page \in 1..PreRow(tasks[i]).last_page.i

\* C24 witness: a click of step 2 on page 1 of 2 has committed page 2, and
\* a later click of step -1 there has committed page 1
C24_Witness ==
    \E i, j \in TaskIds :
        /\ i < j
        /\ tasks[i].kind = "click" /\ tasks[i].outcome = "committed" /\ tasks[i].tail = <<"2">>
        /\ tasks[i].read_page = 1 /\ tasks[i].next_page = 2
        /\ tasks[j].kind = "click" /\ tasks[j].pc = "done" /\ tasks[j].outcome = "committed"
        /\ tasks[j].tail = <<"-", "1">>
        /\ PreRow(tasks[j]).last_page = PyIntV(2)
        /\ tasks[j].read_page = 2 /\ tasks[j].next_page = 1

\* message `id` (a value) of `chat` is a page the bot sent for (user, table)
DisplayOf(chat, id, user, table) ==
    /\ id.t = "int" /\ id.i \in 1..Len(messages[chat])
    /\ messages[chat][id.i].kind = "page"
    /\ messages[chat][id.i].user = user
    /\ messages[chat][id.i].table = table

\* C25: every delete request issued while an initial query or a click is
\* handled names, in the chat of the update, a message the bot sent as the
\* page of the same user and category, in whatever chats the user writes;
\* and a stored message_id that is not null names such a message.
C25_DeletesOwnDisplay ==
    /\ \A i \in TaskIds :
           LET t == tasks[i]
           IN  \A k \in Calls(t, "delete_message") :
                   DisplayOf(t.chat, t.log[k].v, t.user, t.table)
    /\ \A u \in Users, tb \in Tables :
           StoreRow(store, u, tb).message_id # None =>
               \E chat \in Chats : DisplayOf(chat, StoreRow(store, u, tb).message_id, u, tb)

\* the pages the bot sent for (user, table) in `chat` that are not deleted
Displayed(chat, user, table) ==
    {m \in 1..Len(messages[chat]) :
        /\ messages[chat][m].kind = "page" /\ messages[chat][m].alive
        /\ messages[chat][m].user = user /\ messages[chat][m].table = table}

\* C26: after any initial queries and clicks of one (user, category) in one
\* chat, when every handler has finished and no collaborator has failed
\* (so every delete of a message that exists has succeeded), at most one
\* page the bot sent for the pair is not deleted, and it is the one
\* recorded as message_id.
C26_AtMostOneDisplay ==
    ((\A i \in TaskIds : Finished(i)) /\ faults = 0) =>
        \A u \in Users, tb \in Tables, chat \in MainChats :
            /\ Cardinality(Displayed(chat, u, tb)) <= 1
            /\ \A m \in Displayed(chat, u, tb) :
                   StoreRow(store, u, tb).message_id = PyIntV(m)

\* generate_markup has just ended for the handler t after a delete request:
\* the request has returned and the finally has written, and the handler
\* has ended with the error of the request or has gone on to its reply
MarkupEndedAfterDelete(t) ==
    LET n == Len(t.log)
    IN  \/ /\ n >= 2 /\ t.log[n] = Event("clear", None, 0, "ok")
           /\ t.log[n - 1].op = "delete_message"
        \/ /\ n >= 3 /\ t.log[n].op = "reply" /\ t.log[n].r = "call"
           /\ t.log[n - 1] = Event("clear", None, 0, "ok")
           /\ t.log[n - 2].op = "delete_message"

\* C27: when generate_markup has asked for the deletion of the message
\* recorded as message_id, then at its end, whether the request succeeded,
\* found the message gone or failed with a transport error, message_id is
\* null in the store and in the cache.
C27_ClearedWhateverTheOutcome ==
    \A i \in TaskIds :
        LET t == tasks[i]
        IN  (t.pc \notin {"queued", "retired"} /\ MarkupEndedAfterDelete(t)) =>
                /\ StoreRow(store, t.user, t.table).message_id = None
                /\ CacheRow(data_cache, t.user, t.table).message_id = None

\* C28: when the content fetch of an initial query or of a click fails, the
\* handler ends there with the error: it has asked for no deletion, sent
\* nothing and written nothing, so the PaginationState is in the store and
\* in the cache what the handler found, and the message displayed is still
\* recorded; and every deletion and every write of a handler comes after
\* its fetch has succeeded.
C28_FetchBeforeDelete ==
    \A i \in TaskIds :
        LET t == tasks[i]
        IN  t.pc \notin {"queued", "retired"} =>
                /\ \A k \in Returns(t, "get_data") :
                       t.log[k].r # "ok" =>
                           /\ k = Len(t.log)
                           /\ t.pc = "done" /\ t.outcome = "error"
                           /\ \A j \in 1..Len(t.log) :
                                  t.log[j].op \in {"answer", "get_data"}
                           /\ t.sent = 0
                           /\ store = t.pre.store
                           /\ CacheUntouched(t)
                /\ \A d \in 1..Len(t.log) :
                       t.log[d].op \in {"delete_message", "clear", "reply", "commit"} =>
                           \E g \in Returns(t, "get_data") : g < d /\ t.log[g].r = "ok"

\* C28 witness: the fetch of a click on page 1 has failed; the page
\* displayed exists and is still the one recorded, on page 1
C28_Witness ==
    \E i \in TaskIds :
        LET t == tasks[i]
            row == StoreRow(store, t.user, t.table)
        IN  /\ t.kind = "click" /\ t.pc = "done" /\ t.outcome = "error"
            /\ LastEvent(t).op = "get_data" /\ LastEvent(t).r = "error"
            /\ t.read_page = 1
            /\ row.current_page = PyIntV(1)
            /\ Exists(messages, t.chat, row.message_id)
            /\ CacheRow(data_cache, t.user, t.table).message_id = row.message_id

\* the last page of the session whose page the handler t has sent
LastPageOf(t) == IF t.kind = "command" THEN t.last ELSE PreRow(t).last_page.i

\* C29: the page a handler has sent carries a Next button exactly when its
\* page is before the last page, a Previous button exactly when its page
\* is after page 1, and no button when there is one page only; so no
\* button of it leads to a click that is a no-op.
C29_ButtonsOnlyWhereTheyLead ==
    \A i \in TaskIds :
        LET t == tasks[i]
        IN  (t.pc = "done" /\ t.sent # 0 /\ messages[t.chat][t.sent].kind = "page") =>
                LET msg == messages[t.chat][t.sent]
                IN  /\ msg.next <=> msg.page < LastPageOf(t)
                    /\ msg.previous <=> msg.page > 1
                    /\ LastPageOf(t) = 1 => (~msg.next /\ ~msg.previous)

\* C30: on_update answers the callback query and calls handle only when
\* answer(update, context) returns True, that is when the update has an
\* effective user: for an update without one the query is not answered,
\* handle is not called (so nothing fails in it), and neither the store
\* nor the cache is read or changed; for an update with one the query is
\* answered before anything else is done.
C30_AnsweredOnlyWithUser ==
    \A i \in TaskIds :
        LET t == tasks[i]
        IN  (t.kind = "click" /\ t.pc \notin {"queued", "retired"}) =>
                IF t.user = NoUser
                THEN /\ t.log = <<>>
                     /\ t.outcome # "error"
                     /\ store = t.pre.store
                     /\ data_cache = t.pre.data_cache
                ELSE t.log[1] = Event("answer", None, 0, "call")

\* the ways an initial query or a click ends: silent abort, the notice to
\* an uninitialized session, no-op, new page committed, error
Outcomes == {"abort", "notice", "noop", "committed", "error"}

\* the events of t's log with operation op and outcome among rs
Events(t, op, rs) == {k \in 1..Len(t.log) : t.log[k].op = op /\ t.log[k].r \in rs}
Anchored(t) == {k \in Calls(t, "reply") : t.log[k].v # None}
Unanchored(t) == {k \in Calls(t, "reply") : t.log[k].v = None}

\* a handler has one outcome when it has ended and none before, and has
\* attempted each of its fetch, its clearing write, its committing write,
\* its delete, its notice and its send at most once, and besides the send
\* at most one unanchored send, which only a click makes and only after
\* its anchored send was refused
AtMostOnce(t) ==
    /\ IF t.pc = "done" THEN t.outcome \in Outcomes ELSE t.outcome = ""
    /\ Cardinality(Calls(t, "get_data")) <= 1
    /\ Cardinality(Calls(t, "delete_message")) <= 1
    /\ Cardinality(Events(t, "clear", {"ok", "failed"})) <= 1
    /\ Cardinality(Events(t, "commit", {"ok", "failed"})) <= 1
    /\ Cardinality(Calls(t, "notice")) <= 1
    /\ Cardinality(Anchored(t)) <= 1
    /\ Cardinality(Unanchored(t)) <= 1
    /\ \A k \in Unanchored(t) :
           /\ t.kind = "click"
           /\ k > 1 /\ t.log[k - 1].op = "reply" /\ t.log[k - 1].v # None
           /\ t.log[k - 1].r \in {"gone", "bad_request"}
    /\ Cardinality(Events(t, "reply", {"ok"}) \cup Events(t, "notice", {"ok"})) <= 1

\* C31: when every call to the store, to the content API and to the chat
\* returns, every initial query and every click received ends, in exactly
\* one of: silent abort, notice to an uninitialized session, no-op, new
\* page committed, error; once ended its outcome stays; and no handler
\* attempts its fetch, a store write or its send a second time, but for
\* the one unanchored send after a refused anchored one.  Handlers are
\* never removed from tasks and an ended one stays ended, so each of them
\* ends exactly when, again and again, all those received have ended.
C31_EndsOnceWithoutRetry ==
    /\ [](\A i \in TaskIds : tasks[i].pc \notin {"queued", "retired"} => AtMostOnce(tasks[i]))
    /\ [][\A i \in TaskIds :
             tasks[i].pc = "done" =>
                 /\ tasks'[i].pc \in {"done", "retired"}
                 /\ tasks'[i].outcome = tasks[i].outcome
                 /\ tasks'[i].pc = "done" => tasks'[i] = tasks[i]]_vars
    /\ []<>(\A i \in TaskIds : Finished(i))

\* C31 witness: a command without identifier was aborted, a query was
\* committed, and a click has committed a page after one refused anchored
\* send and one unanchored send; every handler has ended
C31_Witness ==
    /\ \A i \in TaskIds : Finished(i)
    /\ \E i \in TaskIds :
           /\ tasks[i].kind = "click" /\ tasks[i].pc = "done" /\ tasks[i].outcome = "committed"
           /\ Cardinality(Anchored(tasks[i])) = 1 /\ Cardinality(Unanchored(tasks[i])) = 1
           /\ Cardinality(Calls(tasks[i], "get_data")) = 1
    /\ Len(tasks) = MaxUpdates
    /\ messages["c1"][1].kind = "command" /\ messages["c1"][2].kind = "command"

====
